---- MODULE Spec2Model ----
(***************************************************************************)
(* Expense-tracking REST service (FastAPI + SQLAlchemy): the category and  *)
(* expense resource managers (repository/crud), the HTTP surface           *)
(* (api/routes) and the invoice upload directory.                          *)
(*                                                                         *)
(* One action is one HTTP request handled from the route function's entry  *)
(* to its response, the session obtained from get_db included: whatever    *)
(* the handler left uncommitted is discarded when the session is closed.   *)
(* Where requests are served concurrently (the last part of the module) a  *)
(* request is a task that takes one step per await of its route function.  *)
(* Optional values are sequences: <<>> is None, <<v>> is the value v.      *)
(***************************************************************************)
EXTENDS Integers, Sequences, FiniteSets, TLC

VARIABLES
    categories,    \* table category: category_id -> [name, is_active]
    expenses,      \* table expenses: expenses_id -> the row's columns
    files,         \* names of the files in INVOICE_UPLOAD_DIR
    nextCategory,  \* number of uuid4 values drawn for category rows, plus one
    nextExpense,   \* number of uuid4 values drawn for expense rows, plus one
    nextFile,      \* number of uuid4 values drawn for file names, plus one
    now,           \* the latest reading of the wall clock that was stored in a row
    req,           \* the request handled last
    resp,          \* its response
    tasks,         \* the requests served concurrently, in the order they arrived
    sessions       \* the sessions get_db has opened and not closed

vars == <<categories, expenses, files, nextCategory, nextExpense, nextFile, now, req, resp,
          tasks, sessions>>

(***************************************************************************)
(* Bounds of the model.                                                    *)
(***************************************************************************)
MaxCategories == 2
MaxExpenses == 2
MaxFiles == 2
MaxTime == 3
MaxNameLen == 3

CategoryIds == 1..(MaxCategories + 1)
ExpenseIds == 1..(MaxExpenses + 1)

\* valid category names (2 to 50 characters)
Names == {"Travel", "Food"}

\* the rows of table users; the authenticated user is one of them
Users == {"alice", "bob"}

None == <<>>
Some(v) == <<v>>

(***************************************************************************)
(* Python's exception classes, as far as the handlers tell them apart.     *)
(***************************************************************************)
ExceptionBases(cls) ==
    CASE cls = "ValueError" -> {"ValueError", "Exception"}
      [] cls = "JSONDecodeError" -> {"JSONDecodeError", "ValueError", "Exception"}
      [] cls = "ValidationError" -> {"ValidationError", "ValueError", "Exception"}
      [] cls = "RuntimeError" -> {"RuntimeError", "Exception"}
      [] cls = "TypeError" -> {"TypeError", "Exception"}
      [] cls = "AttributeError" -> {"AttributeError", "Exception"}
      [] cls = "UnboundLocalError" -> {"UnboundLocalError", "Exception"}
      [] cls = "HTTPException" -> {"HTTPException", "Exception"}
      [] OTHER -> {}

isinstance(cls, base) == base \in ExceptionBases(cls)

\* what a function call evaluates to: a value, or a raised exception
Return(v) == [exc |-> "None", val |-> Some(v), status |-> 0, tmpl |-> "", id |-> 0, name |-> ""]
Raise(cls) == [exc |-> cls, val |-> None, status |-> 0, tmpl |-> "", id |-> 0, name |-> ""]
RaiseHTTP(st, t, i, n) ==
    [exc |-> "HTTPException", val |-> None, status |-> st, tmpl |-> t, id |-> i, name |-> n]

\* the except clauses of the resource managers' functions that look a row up:
\* "except ValueError: raise", "except Exception: raise RuntimeError(...)"
crud_except(cls) == IF isinstance(cls, "ValueError") THEN Raise(cls) ELSE Raise("RuntimeError")

\* a JSON text, by what json.loads makes of it: kind is "malformed" (no JSON),
\* "array" (JSON, but no object) or "object"; an object's members are a record
\* of optionals, None for a member that is absent or null
JsonText(kind, members) == [json |-> kind, members |-> members]

\* the request handled: the route, the path parameter, the body's fields, the
\* uploaded file and, where the handler uses it, the authenticated user
\* (fields a route lacks are blank); io is what the file system did when the
\* handler wrote the uploaded file; body is the JSON text of a form field and
\* payload the object the handler made of it; rejected tells that
\* get_current_user refused the request's credentials
NoReq == [op |-> "none", id |-> 0, name |-> "", is_active |-> FALSE,
          user |-> "", payload |-> None, upload |-> None, io |-> "none",
          body |-> JsonText("none", None), rejected |-> FALSE]

\* the response the client receives
Response(st, t, i, n, b) == [status |-> st, tmpl |-> t, id |-> i, name |-> n, body |-> b]

(***************************************************************************)
(* Storage: the constraints the tables declare, checked at commit.         *)
(***************************************************************************)
CategoryEntity(cats, i) == [category_id |-> i, name |-> cats[i].name, is_active |-> cats[i].is_active]

Put(table, i, row) == [k \in DOMAIN table \cup {i} |-> IF k = i THEN row ELSE table[k]]

Remove(table, i) == [k \in DOMAIN table \ {i} |-> table[k]]

\* variant: the column is declared without unique=True
CategoryNameUnique_Undeclared(cats) == TRUE

\* Category.name is unique=True
CategoryNameUnique(cats) ==
    \A i, j \in DOMAIN cats : i # j => cats[i].name # cats[j].name

\* variant: the columns are declared without ForeignKey
ExpenseForeignKeys_Undeclared(exps, cats) == TRUE

\* Expense.category_id and Expense.user_id are foreign keys
ExpenseForeignKeys(exps, cats) ==
    \A e \in DOMAIN exps : exps[e].category_id \in DOMAIN cats /\ exps[e].user_id \in Users

(***************************************************************************)
(* Category resource manager (repository/crud/category.py).  Each function *)
(* evaluates to the call's outcome and the table as committed.             *)
(***************************************************************************)
create_category(cats, fresh, name, is_active, commitOk) ==
    LET pending == Put(cats, fresh, [name |-> name, is_active |-> is_active])
    IN  IF commitOk /\ CategoryNameUnique(pending)
        THEN [out |-> Return(CategoryEntity(pending, fresh)), cats |-> pending]
        ELSE [out |-> Raise("RuntimeError"), cats |-> cats]

\* variant: the "except ValueError: raise" clause is missing
get_category_by_id_Wrapped(cats, category_id) ==
    IF category_id \notin DOMAIN cats
    THEN Raise("RuntimeError")
    ELSE Return(CategoryEntity(cats, category_id))

get_category_by_id(cats, category_id) ==
    IF category_id \notin DOMAIN cats
    THEN Raise("ValueError")
    ELSE Return(CategoryEntity(cats, category_id))

get_category_by_name(cats, name) ==
    LET found == {i \in DOMAIN cats : cats[i].name = name}
    IN  IF found = {} THEN None ELSE Some(CategoryEntity(cats, CHOOSE i \in found : TRUE))

\* variant: the filter on is_active is missing
get_active_categories_Unfiltered(cats) == {CategoryEntity(cats, i) : i \in DOMAIN cats}

\* select(CategoryModel).filter(CategoryModel.is_active); the result's order
\* is the database's choice, so the result is kept as a set
get_active_categories(cats) ==
    {CategoryEntity(cats, i) : i \in {j \in DOMAIN cats : cats[j].is_active}}

\* variant: only the name is replaced
update_category_NameOnly(cats, category_id, name, is_active, commitOk) ==
    IF category_id \notin DOMAIN cats
    THEN [out |-> Raise("ValueError"), cats |-> cats]
    ELSE LET pending == Put(cats, category_id, [cats[category_id] EXCEPT !.name = name])
         IN  IF commitOk /\ CategoryNameUnique(pending)
             THEN [out |-> Return(CategoryEntity(pending, category_id)), cats |-> pending]
             ELSE [out |-> Raise("RuntimeError"), cats |-> cats]

update_category(cats, category_id, name, is_active, commitOk) ==
    IF category_id \notin DOMAIN cats
    THEN [out |-> Raise("ValueError"), cats |-> cats]
    ELSE LET pending == Put(cats, category_id, [name |-> name, is_active |-> is_active])
         IN  IF commitOk /\ CategoryNameUnique(pending)
             THEN [out |-> Return(CategoryEntity(pending, category_id)), cats |-> pending]
             ELSE [out |-> Raise("RuntimeError"), cats |-> cats]

\* variant: the row is deleted instead of being marked
mark_category_as_inactive_Delete(cats, category_id, commitOk) ==
    IF category_id \notin DOMAIN cats
    THEN [out |-> Raise("ValueError"), cats |-> cats]
    ELSE IF commitOk
    THEN [out |-> Return(TRUE), cats |-> Remove(cats, category_id)]
    ELSE [out |-> Raise("RuntimeError"), cats |-> cats]

mark_category_as_inactive(cats, category_id, commitOk) ==
    IF category_id \notin DOMAIN cats
    THEN [out |-> Raise("ValueError"), cats |-> cats]
    ELSE LET pending == Put(cats, category_id, [cats[category_id] EXCEPT !.is_active = FALSE])
         IN  IF commitOk
             THEN [out |-> Return(TRUE), cats |-> pending]
             ELSE [out |-> Raise("RuntimeError"), cats |-> cats]

(***************************************************************************)
(* HTTP surface, categories (api/routes/category.py).                      *)
(***************************************************************************)
\* the except clauses of create_category_endpoint, tried in order
create_category_handlers(out, name) ==
    IF out.exc = "None" THEN Response(201, "", 0, "", out.val)
    ELSE IF isinstance(out.exc, "ValueError") THEN Response(400, "str(e)", 0, "", None)
    ELSE IF isinstance(out.exc, "Exception") THEN Response(500, "unexpected_error_create", 0, name, None)
    ELSE Response(out.status, out.tmpl, out.id, out.name, None)

create_category_endpoint(name, is_active, commitOk) ==
    LET existing_category == get_category_by_name(categories, name)
        r == IF existing_category # None
             THEN [out |-> RaiseHTTP(400, "category_exists", 0, name), cats |-> categories]
             ELSE create_category(categories, nextCategory, name, is_active, commitOk)
    IN  /\ existing_category # None \/ nextCategory <= MaxCategories
        /\ req' = [NoReq EXCEPT !.op = "create_category", !.name = name, !.is_active = is_active]
        /\ resp' = create_category_handlers(r.out, name)
        /\ categories' = r.cats
        /\ nextCategory' = IF r.out.exc = "None" THEN nextCategory + 1 ELSE nextCategory
        /\ UNCHANGED <<expenses, files, nextExpense, nextFile, now, tasks, sessions>>

list_active_categories_endpoint ==
    /\ req' = [NoReq EXCEPT !.op = "list_active_categories"]
    /\ resp' = Response(200, "", 0, "", Some(get_active_categories(categories)))
    /\ UNCHANGED <<categories, expenses, files, nextCategory, nextExpense, nextFile, now,
                   tasks, sessions>>

\* the except clauses shared by the routes that take an id: ValueError -> 404
id_handlers(out, ok_status, not_found, unexpected, i) ==
    IF out.exc = "None" THEN Response(ok_status, "", 0, "", out.val)
    ELSE IF isinstance(out.exc, "ValueError") THEN Response(404, not_found, i, "", None)
    ELSE IF isinstance(out.exc, "Exception") THEN Response(500, unexpected, i, "", None)
    ELSE Response(out.status, out.tmpl, out.id, out.name, None)

get_category_endpoint(category_id) ==
    LET out == get_category_by_id(categories, category_id)
    IN  /\ req' = [NoReq EXCEPT !.op = "get_category", !.id = category_id]
        /\ resp' = id_handlers(out, 200, "category_not_found", "unexpected_error_retrieve_by_id", category_id)
        /\ UNCHANGED <<categories, expenses, files, nextCategory, nextExpense, nextFile, now,
                       tasks, sessions>>

update_category_endpoint(category_id, name, is_active, commitOk) ==
    LET r == update_category(categories, category_id, name, is_active, commitOk)
    IN  /\ req' = [NoReq EXCEPT !.op = "update_category", !.id = category_id, !.name = name,
                              !.is_active = is_active]
        /\ resp' = id_handlers(r.out, 200, "category_update_not_found", "unexpected_error_update", category_id)
        /\ categories' = r.cats
        /\ UNCHANGED <<expenses, files, nextCategory, nextExpense, nextFile, now, tasks, sessions>>

\* variant: the route also removes the expenses of the category it marks
mark_category_as_inactive_endpoint_Purges(category_id, commitOk) ==
    LET r == mark_category_as_inactive(categories, category_id, commitOk)
        out == IF r.out.exc = "None"
               THEN Return([message |-> "Category inactived successfully", result |-> r.out.val[1]])
               ELSE r.out
        kept == IF r.out.exc = "None"
                THEN {e \in DOMAIN expenses : expenses[e].category_id # category_id}
                ELSE DOMAIN expenses
    IN  /\ req' = [NoReq EXCEPT !.op = "mark_category_as_inactive", !.id = category_id]
        /\ resp' = id_handlers(out, 200, "category_deletion_not_found", "unexpected_error_delete", category_id)
        /\ categories' = r.cats
        /\ expenses' = [e \in kept |-> expenses[e]]
        /\ UNCHANGED <<files, nextCategory, nextExpense, nextFile, now, tasks, sessions>>

mark_category_as_inactive_endpoint(category_id, commitOk) ==
    LET r == mark_category_as_inactive(categories, category_id, commitOk)
        out == IF r.out.exc = "None"
               THEN Return([message |-> "Category inactived successfully", result |-> r.out.val[1]])
               ELSE r.out
    IN  /\ req' = [NoReq EXCEPT !.op = "mark_category_as_inactive", !.id = category_id]
        /\ resp' = id_handlers(out, 200, "category_deletion_not_found", "unexpected_error_delete", category_id)
        /\ categories' = r.cats
        /\ UNCHANGED <<expenses, files, nextCategory, nextExpense, nextFile, now, tasks, sessions>>

(***************************************************************************)
(* File names are sequences of characters; a uuid4 string is one character *)
(* of its own (it holds neither "." nor "/").                              *)
(***************************************************************************)
uuid4(n) == "uuid" \o ToString(n)

rfind(p, c) ==
    LET at == {k \in 1..Len(p) : p[k] = c}
    IN  IF at = {} THEN 0 ELSE CHOOSE k \in at : \A m \in at : m <= k

\* os.path.splitext(p)[1]: from the last dot of the last path component,
\* unless only dots precede it there
splitext(p) ==
    LET sepIndex == rfind(p, "/")
        dotIndex == rfind(p, ".")
    IN  IF dotIndex > sepIndex /\ \E k \in (sepIndex + 1)..(dotIndex - 1) : p[k] # "."
        THEN SubSeq(p, dotIndex, Len(p))
        ELSE <<>>

(***************************************************************************)
(* Expense resource manager (repository/crud/expense.py).                  *)
(***************************************************************************)
ExpenseEntity(exps, i) == [
    expenses_id |-> i,
    user_id |-> exps[i].user_id,
    category_id |-> exps[i].category_id,
    subject |-> exps[i].subject,
    expense_date |-> exps[i].expense_date,
    amount |-> exps[i].amount,
    reimbursable |-> exps[i].reimbursable,
    description |-> exps[i].description,
    invoice_image |-> exps[i].invoice_image,
    employee |-> exps[i].employee,
    updated_at |-> exps[i].updated_at]

\* "if invoice_image and invoice_image.filename"
HasFile(invoice_image) == invoice_image # None /\ invoice_image[1] # <<>>

\* variant: the file is stored under the name it was uploaded with
generated_filename_Uploaded(fileId, filename) == filename

\* f"{uuid4()}{file_extension}"
generated_filename(fileId, filename) == <<uuid4(fileId)>> \o splitext(filename)

\* variant: a failed write is logged and the request goes on
save_invoice_Swallowed(fileOutcome) == Return(TRUE)

\* writing the uploaded bytes: fileOutcome is what the file system does, "ok",
\* "open_failed" (no file appears) or "write_failed" (the file was opened and
\* the write raised)
save_invoice(fileOutcome) ==
    IF fileOutcome = "ok" THEN Return(TRUE) ELSE Raise("RuntimeError")

\* invoice_image is an Optional[UploadFile], here the optional file name;
\* clock is the reading pendulum.now() gives, later than every reading before
\* it; clockRead tells whether the reading was stored (a reading that is
\* discarded with its row is seen by nobody).
create_expense(exps, cats, fresh, user_id, expense, invoice_image, fileId, fileOutcome, clock, commitOk) ==
    LET hasFile == HasFile(invoice_image)
        image_filename == IF hasFile THEN Some(generated_filename(fileId, invoice_image[1])) ELSE None
        written == IF hasFile /\ fileOutcome # "open_failed" THEN {image_filename[1]} ELSE {}
        saved == IF hasFile THEN save_invoice(fileOutcome) ELSE Return(TRUE)
        db_expense == [
            subject |-> expense.subject,
            expense_date |-> expense.expense_date,
            reimbursable |-> expense.reimbursable,
            amount |-> expense.amount,
            description |-> expense.description,
            invoice_image |-> image_filename,
            employee |-> expense.employee,
            category_id |-> expense.category_id,
            user_id |-> user_id,
            updated_at |-> clock]
        pending == Put(exps, fresh, db_expense)
    IN  IF saved.exc # "None"
        THEN [out |-> Raise("RuntimeError"), exps |-> exps, written |-> written, clockRead |-> FALSE]
        ELSE IF commitOk /\ ExpenseForeignKeys(pending, cats)
        THEN [out |-> Return(ExpenseEntity(pending, fresh)), exps |-> pending,
              written |-> written, clockRead |-> TRUE]
        ELSE [out |-> Raise("RuntimeError"), exps |-> exps, written |-> written, clockRead |-> FALSE]

\* variant: the "except ValueError: raise" clause is missing
get_expense_by_id_Wrapped(exps, expense_id) ==
    IF expense_id \notin DOMAIN exps
    THEN Raise("RuntimeError")
    ELSE Return(ExpenseEntity(exps, expense_id))

get_expense_by_id(exps, expense_id) ==
    IF expense_id \notin DOMAIN exps
    THEN Raise("ValueError")
    ELSE Return(ExpenseEntity(exps, expense_id))

get_expenses(exps) == {ExpenseEntity(exps, i) : i \in DOMAIN exps}

\* the fields class ExpenseUpdate declares
ExpenseUpdateFields ==
    {"category_id", "subject", "expense_date", "amount", "reimbursable", "description", "employee"}

\* reading attribute f of an ExpenseUpdate object
getattr(expense_update, f) ==
    IF f \in ExpenseUpdateFields THEN Return(expense_update[f]) ELSE Raise("AttributeError")

\* one "if expense_update.f is not None: expense.f = expense_update.f"
merge(row, expense_update, f) ==
    IF expense_update[f] # None THEN [row EXCEPT ![f] = expense_update[f][1]] ELSE row

\* not-null columns hold the value itself, nullable columns an optional
merge_nullable(row, expense_update, f) ==
    IF expense_update[f] # None THEN [row EXCEPT ![f] = expense_update[f]] ELSE row

\* variant: category_id is assigned like the other fields of the payload
update_expense_assign_Category(row, expense_update, clock) ==
    LET e0 == merge(row, expense_update, "category_id")
        e1 == merge(e0, expense_update, "subject")
        e2 == merge(e1, expense_update, "expense_date")
        e3 == merge(e2, expense_update, "amount")
        e4 == merge(e3, expense_update, "reimbursable")
    IN  merge_nullable(e4, expense_update, "description")

\* the assignments of update_expense to the row it selected, as far as they
\* are reached: reading expense_update.invoice_image raises, and the
\* assignments after it are not made
update_expense_assign(row, expense_update, clock) ==
    LET e1 == merge(row, expense_update, "subject")
        e2 == merge(e1, expense_update, "expense_date")
        e3 == merge(e2, expense_update, "amount")
        e4 == merge(e3, expense_update, "reimbursable")
        e5 == merge_nullable(e4, expense_update, "description")
        image == getattr(expense_update, "invoice_image")
    IN  IF image.exc # "None" THEN e5
        ELSE LET e6 == IF image.val[1] # None THEN [e5 EXCEPT !.invoice_image = image.val[1]] ELSE e5
                 e7 == merge_nullable(e6, expense_update, "employee")
             IN  [e7 EXCEPT !.updated_at = clock]

update_expense(exps, expense_id, expense_update, clock, commitOk) ==
    IF expense_id \notin DOMAIN exps
    THEN [out |-> Raise("ValueError"), exps |-> exps, clockRead |-> FALSE]
    ELSE LET image == getattr(expense_update, "invoice_image")
             pending == Put(exps, expense_id,
                            update_expense_assign(exps[expense_id], expense_update, clock))
         IN  IF image.exc # "None"
             THEN [out |-> crud_except(image.exc), exps |-> exps, clockRead |-> FALSE]
             ELSE IF commitOk
             THEN [out |-> Return(ExpenseEntity(pending, expense_id)), exps |-> pending, clockRead |-> TRUE]
             ELSE [out |-> Raise("RuntimeError"), exps |-> exps, clockRead |-> FALSE]

\* variant: db.delete is left out, the commit has nothing to write
delete_expense_NoDelete(exps, expense_id, commitOk) ==
    IF expense_id \notin DOMAIN exps
    THEN [out |-> Raise("ValueError"), exps |-> exps]
    ELSE IF commitOk
    THEN [out |-> Return(TRUE), exps |-> exps]
    ELSE [out |-> Raise("RuntimeError"), exps |-> exps]

delete_expense(exps, expense_id, commitOk) ==
    IF expense_id \notin DOMAIN exps
    THEN [out |-> Raise("ValueError"), exps |-> exps]
    ELSE IF commitOk
    THEN [out |-> Return(TRUE), exps |-> Remove(exps, expense_id)]
    ELSE [out |-> Raise("RuntimeError"), exps |-> exps]

(***************************************************************************)
(* HTTP surface, expenses (api/routes/expense.py).  The body arrives as a  *)
(* JSON string in a form field and is parsed by the handler.               *)
(***************************************************************************)
\* json.loads(s)
json_loads(s) == IF s.json = "malformed" THEN Raise("JSONDecodeError") ELSE Return(s)

\* Field(min_length=lo, max_length=hi) on a string member, if it is there
length_ok(v, lo, hi) == v = None \/ (Len(v[1]) >= lo /\ Len(v[1]) <= hi)

\* Field(gt=0) on a number member, if it is there
gt_ok(v) == v = None \/ v[1] > 0

\* variant: the members are required but their constraints are not declared
ExpenseCreate_NoConstraints(expense_data) ==
    IF expense_data.json # "object" THEN Raise("TypeError")
    ELSE LET m == expense_data.members[1]
         IN  IF m.category_id # None /\ m.subject # None /\ m.expense_date # None /\ m.amount # None
             THEN Return([category_id |-> m.category_id[1], subject |-> m.subject[1],
                          expense_date |-> m.expense_date[1], amount |-> m.amount[1],
                          reimbursable |-> IF m.reimbursable = None THEN FALSE ELSE m.reimbursable[1],
                          description |-> m.description, employee |-> m.employee])
             ELSE Raise("ValidationError")

\* ExpenseCreate(**expense_data): ** needs a mapping; category_id, subject,
\* expense_date and amount are required, reimbursable defaults to False
ExpenseCreate(expense_data) ==
    IF expense_data.json # "object" THEN Raise("TypeError")
    ELSE LET m == expense_data.members[1]
         IN  IF /\ m.category_id # None /\ m.subject # None /\ m.expense_date # None /\ m.amount # None
                /\ length_ok(m.subject, 2, 100) /\ gt_ok(m.amount)
                /\ length_ok(m.description, 0, 500) /\ length_ok(m.employee, 0, 100)
             THEN Return([category_id |-> m.category_id[1], subject |-> m.subject[1],
                          expense_date |-> m.expense_date[1], amount |-> m.amount[1],
                          reimbursable |-> IF m.reimbursable = None THEN FALSE ELSE m.reimbursable[1],
                          description |-> m.description, employee |-> m.employee])
             ELSE Raise("ValidationError")

\* ExpenseUpdate(**expense_update_data): every member is optional
ExpenseUpdate(expense_update_data) ==
    IF expense_update_data.json # "object" THEN Raise("TypeError")
    ELSE LET m == expense_update_data.members[1]
         IN  IF /\ length_ok(m.subject, 2, 100) /\ gt_ok(m.amount)
                /\ length_ok(m.description, 0, 500) /\ length_ok(m.employee, 0, 100)
             THEN Return(m)
             ELSE Raise("ValidationError")

\* the except clauses of create_expense_endpoint, tried in order; subject is
\* expense_obj.subject, None while expense_obj is not bound
create_expense_handlers(out, subject) ==
    IF out.exc = "None" THEN Response(201, "", 0, "", out.val)
    ELSE IF isinstance(out.exc, "ValueError") THEN Response(400, "str(e)", 0, "", None)
    ELSE IF isinstance(out.exc, "JSONDecodeError")
    THEN Response(400, "Invalid JSON in expense data", 0, "", None)
    ELSE IF isinstance(out.exc, "Exception")
    THEN IF subject # None
         THEN Response(500, "expense_unexpected_error_create", 0, subject[1], None)
         ELSE Response(500, "Internal Server Error", 0, "", None)
    ELSE Response(out.status, out.tmpl, out.id, out.name, None)

\* expense_obj and the manager's result are each bound once, as the handler's
\* local variables are
create_expense_endpoint(user, expense, invoice_image, fileOutcome, commitOk) ==
    LET expense_data == json_loads(expense)
    IN  \E expense_obj \in {IF expense_data.exc = "None" THEN ExpenseCreate(expense_data.val[1])
                            ELSE expense_data} :
        \E r \in {IF expense_obj.exc = "None"
                  THEN create_expense(expenses, categories, nextExpense, user, expense_obj.val[1],
                                      invoice_image, nextFile, fileOutcome, now + 1, commitOk)
                  ELSE [out |-> expense_obj, exps |-> expenses, written |-> {}, clockRead |-> FALSE]} :
        LET subject == IF expense_obj.exc = "None" THEN Some(expense_obj.val[1].subject) ELSE None
        IN
        /\ r.out.exc = "None" => nextExpense <= MaxExpenses
        /\ r.clockRead => now < MaxTime
        /\ r.written # {} => nextFile <= MaxFiles
        /\ req' = [NoReq EXCEPT !.op = "create_expense", !.user = user, !.body = expense,
                                !.payload = expense_obj.val, !.upload = invoice_image,
                                !.io = IF HasFile(invoice_image) /\ expense_obj.exc = "None"
                                       THEN fileOutcome ELSE "none"]
        /\ resp' = create_expense_handlers(r.out, subject)
        /\ expenses' = r.exps
        /\ files' = files \cup r.written
        /\ nextExpense' = IF r.out.exc = "None" THEN nextExpense + 1 ELSE nextExpense
        /\ nextFile' = IF r.written # {} THEN nextFile + 1 ELSE nextFile
        /\ now' = IF r.clockRead THEN now + 1 ELSE now
        /\ UNCHANGED <<categories, nextCategory, tasks, sessions>>

\* variant: the route answers for the expenses of the authenticated user only
get_expense_endpoint_OwnerOnly(user, expense_id) ==
    LET found == get_expense_by_id(expenses, expense_id)
        out == IF found.exc = "None" /\ found.val[1].user_id # user THEN Raise("ValueError") ELSE found
    IN  /\ req' = [NoReq EXCEPT !.op = "get_expense", !.id = expense_id]
        /\ resp' = id_handlers(out, 200, "expense_not_found", "expense_unexpected_error_retrieve_by_id",
                               expense_id)
        /\ UNCHANGED <<categories, expenses, files, nextCategory, nextExpense, nextFile, now,
                       tasks, sessions>>

get_expense_endpoint(user, expense_id) ==
    LET out == get_expense_by_id(expenses, expense_id)
    IN  /\ req' = [NoReq EXCEPT !.op = "get_expense", !.id = expense_id]
        /\ resp' = id_handlers(out, 200, "expense_not_found", "expense_unexpected_error_retrieve_by_id",
                               expense_id)
        /\ UNCHANGED <<categories, expenses, files, nextCategory, nextExpense, nextFile, now,
                       tasks, sessions>>

\* def update_expense(db, expense_id, expense_update): three parameters
update_expense_params == 3

\* update_expense(db, expense_id, expense_update_obj, invoice_image): four arguments
update_expense_args == 4

update_expense_endpoint(user, expense_id, expense_update, invoice_image, commitOk) ==
    LET expense_update_data == json_loads(expense_update)
    IN  \E expense_update_obj \in {IF expense_update_data.exc = "None"
                                   THEN ExpenseUpdate(expense_update_data.val[1])
                                   ELSE expense_update_data} :
        \E r \in {IF expense_update_obj.exc # "None"
                  THEN [out |-> expense_update_obj, exps |-> expenses, clockRead |-> FALSE]
                  ELSE IF update_expense_args # update_expense_params
                  THEN [out |-> Raise("TypeError"), exps |-> expenses, clockRead |-> FALSE]
                  ELSE update_expense(expenses, expense_id, expense_update_obj.val[1], now + 1, commitOk)} :
        /\ r.clockRead => now < MaxTime
        /\ req' = [NoReq EXCEPT !.op = "update_expense", !.id = expense_id, !.body = expense_update,
                                !.payload = expense_update_obj.val, !.upload = invoice_image]
        /\ resp' = id_handlers(r.out, 200, "expense_update_not_found", "expense_unexpected_error_update",
                               expense_id)
        /\ expenses' = r.exps
        /\ now' = IF r.clockRead THEN now + 1 ELSE now
        /\ UNCHANGED <<categories, files, nextCategory, nextExpense, nextFile, tasks, sessions>>

\* variant: the route also removes the invoice file of the expense it deletes
delete_expense_endpoint_Unlinks(user, expense_id, commitOk) ==
    LET r == delete_expense(expenses, expense_id, commitOk)
        out == IF r.out.exc = "None"
               THEN Return([message |-> "Expense deleted successfully", result |-> r.out.val[1]])
               ELSE r.out
        unlinked == IF r.out.exc = "None" /\ expenses[expense_id].invoice_image # None
                    THEN {expenses[expense_id].invoice_image[1]} ELSE {}
    IN  /\ req' = [NoReq EXCEPT !.op = "delete_expense", !.id = expense_id]
        /\ resp' = id_handlers(out, 200, "expense_deletion_not_found", "expense_unexpected_error_delete",
                               expense_id)
        /\ expenses' = r.exps
        /\ files' = files \ unlinked
        /\ UNCHANGED <<categories, nextCategory, nextExpense, nextFile, now, tasks, sessions>>

delete_expense_endpoint(user, expense_id, commitOk) ==
    LET r == delete_expense(expenses, expense_id, commitOk)
        out == IF r.out.exc = "None"
               THEN Return([message |-> "Expense deleted successfully", result |-> r.out.val[1]])
               ELSE r.out
    IN  /\ req' = [NoReq EXCEPT !.op = "delete_expense", !.id = expense_id]
        /\ resp' = id_handlers(out, 200, "expense_deletion_not_found", "expense_unexpected_error_delete",
                               expense_id)
        /\ expenses' = r.exps
        /\ UNCHANGED <<categories, files, nextCategory, nextExpense, nextFile, now,
                       tasks, sessions>>

\* paginate(expenses, params): the page holds every row while the table is
\* smaller than a page
list_expenses_endpoint(user) ==
    /\ req' = [NoReq EXCEPT !.op = "list_expenses"]
    /\ resp' = Response(200, "", 0, "", Some(get_expenses(expenses)))
    /\ UNCHANGED <<categories, expenses, files, nextCategory, nextExpense, nextFile, now,
                   tasks, sessions>>

(***************************************************************************)
(* The routes as the framework serves them: the dependencies and the body  *)
(* parameter of a route function are resolved before the function is       *)
(* called, and a failure there is answered without calling it.             *)
(***************************************************************************)
\* the rows of users are their own credentials; any other credentials are
\* refused
get_current_user(credentials) ==
    IF credentials \in Users THEN Return(credentials)
    ELSE RaiseHTTP(401, "not_authenticated", 0, "")

\* a request answered by the framework: a dependency raised error
rejected_request(op, i, error) ==
    /\ req' = [NoReq EXCEPT !.op = op, !.id = i, !.rejected = TRUE]
    /\ resp' = Response(error.status, error.tmpl, 0, "", None)
    /\ UNCHANGED <<categories, expenses, files, nextCategory, nextExpense, nextFile, now,
                   tasks, sessions>>

\* a request answered by the framework: the body is no CategoryCreate or
\* CategoryUpdate (RequestValidationError, answered 422)
invalid_request(op, i, body) ==
    /\ req' = [NoReq EXCEPT !.op = op, !.id = i, !.body = body]
    /\ resp' = Response(422, "request_validation_error", 0, "", None)
    /\ UNCHANGED <<categories, expenses, files, nextCategory, nextExpense, nextFile, now,
                   tasks, sessions>>

\* variant: is_active = Field(default=False)
CategoryBase_DefaultFalse(body) ==
    IF body.json # "object" THEN Raise("ValidationError")
    ELSE LET m == body.members[1]
         IN  IF m.name # None /\ length_ok(m.name, 2, 50)
             THEN Return([name |-> m.name[1],
                          is_active |-> IF m.is_active = None THEN FALSE ELSE m.is_active[1]])
             ELSE Raise("ValidationError")

\* class CategoryBase, the fields of CategoryCreate and CategoryUpdate: name
\* is required, is_active defaults to True
CategoryBase(body) ==
    IF body.json # "object" THEN Raise("ValidationError")
    ELSE LET m == body.members[1]
         IN  IF m.name # None /\ length_ok(m.name, 2, 50)
             THEN Return([name |-> m.name[1],
                          is_active |-> IF m.is_active = None THEN TRUE ELSE m.is_active[1]])
             ELSE Raise("ValidationError")

POST_categories(body, commitOk) ==
    LET category == CategoryBase(body)
    IN  IF category.exc = "None"
        THEN create_category_endpoint(category.val[1].name, category.val[1].is_active, commitOk)
        ELSE invalid_request("create_category", 0, body)

PUT_categories(category_id, body, commitOk) ==
    LET category_update == CategoryBase(body)
    IN  IF category_update.exc = "None"
        THEN update_category_endpoint(category_id, category_update.val[1].name,
                                      category_update.val[1].is_active, commitOk)
        ELSE invalid_request("update_category", category_id, body)

POST_expenses(credentials, expense, invoice_image, fileOutcome, commitOk) ==
    LET current_user == get_current_user(credentials)
    IN  IF current_user.exc = "None"
        THEN create_expense_endpoint(current_user.val[1], expense, invoice_image, fileOutcome, commitOk)
        ELSE rejected_request("create_expense", 0, current_user)

GET_expenses(credentials) ==
    LET current_user == get_current_user(credentials)
    IN  IF current_user.exc = "None"
        THEN list_expenses_endpoint(current_user.val[1])
        ELSE rejected_request("list_expenses", 0, current_user)

GET_expense(credentials, expense_id) ==
    LET current_user == get_current_user(credentials)
    IN  IF current_user.exc = "None"
        THEN get_expense_endpoint(current_user.val[1], expense_id)
        ELSE rejected_request("get_expense", expense_id, current_user)

PUT_expense(credentials, expense_id, expense_update, invoice_image, commitOk) ==
    LET current_user == get_current_user(credentials)
    IN  IF current_user.exc = "None"
        THEN update_expense_endpoint(current_user.val[1], expense_id, expense_update, invoice_image,
                                     commitOk)
        ELSE rejected_request("update_expense", expense_id, current_user)

\* variant: the route function does not depend on get_current_user
DELETE_expense_Unguarded(credentials, expense_id, commitOk) ==
    delete_expense_endpoint(credentials, expense_id, commitOk)

DELETE_expense(credentials, expense_id, commitOk) ==
    LET current_user == get_current_user(credentials)
    IN  IF current_user.exc = "None"
        THEN delete_expense_endpoint(current_user.val[1], expense_id, commitOk)
        ELSE rejected_request("delete_expense", expense_id, current_user)

(***************************************************************************)
(* The requests sent: valid bodies over small sets of field values.        *)
(***************************************************************************)
\* category 1 is stored when expenses are created (InitExpense below),
\* MaxCategories + 1 never is
CreatePayloads == {
    [category_id |-> 1, subject |-> "Flight", expense_date |-> 20240101, amount |-> 250,
     reimbursable |-> FALSE, description |-> None, employee |-> Some("dave")],
    [category_id |-> MaxCategories + 1, subject |-> "Hotel", expense_date |-> 20240102,
     amount |-> 120, reimbursable |-> TRUE, description |-> Some("two nights"), employee |-> None]}

NoUpdate ==
    [category_id |-> None, subject |-> None, expense_date |-> None, amount |-> None,
     reimbursable |-> None, description |-> None, employee |-> None]

\* a payload that leaves fields out, and one that sets every field
UpdatePayloads == {
    [NoUpdate EXCEPT !.subject = Some("Hotel"), !.amount = Some(80), !.description = Some("bus")],
    [category_id |-> Some(2), subject |-> Some("Train"), expense_date |-> Some(20240202),
     amount |-> Some(80), reimbursable |-> Some(TRUE), description |-> Some("bus"),
     employee |-> Some("carol")]}

\* the members of the JSON object a client sends for a valid ExpenseCreate
Members(expense) ==
    [category_id |-> Some(expense.category_id), subject |-> Some(expense.subject),
     expense_date |-> Some(expense.expense_date), amount |-> Some(expense.amount),
     reimbursable |-> Some(expense.reimbursable), description |-> expense.description,
     employee |-> expense.employee]

\* the form field "expense" of the valid requests
CreateBodies == {JsonText("object", Some(Members(e))) : e \in CreatePayloads}

\* the form field "expense_update" of the valid requests
UpdateBodies == {JsonText("object", Some(e)) : e \in UpdatePayloads}

\* form fields that do not hold a JSON object
MalformedBodies == {JsonText("malformed", None), JsonText("array", None)}

\* form fields no ExpenseCreate can be made of: no JSON object, a subject of
\* one character, an amount of 0, no subject
InvalidCreateBodies ==
    LET valid == Members(CHOOSE e \in CreatePayloads : e.category_id = 1)
    IN  MalformedBodies \cup
        {JsonText("object", Some(m)) : m \in {[valid EXCEPT !.subject = Some("H")],
                                               [valid EXCEPT !.amount = Some(0)],
                                               [valid EXCEPT !.subject = None]}}

\* form fields no ExpenseUpdate can be made of
InvalidUpdateBodies ==
    MalformedBodies \cup
    {JsonText("object", Some(m)) : m \in {[NoUpdate EXCEPT !.subject = Some("H")],
                                           [NoUpdate EXCEPT !.amount = Some(0)]}}

\* the uploaded file's name: empty, or with an extension
UploadNames == {<<>>, <<"a", ".", "p">>}

Uploads == {None} \cup {Some(f) : f \in UploadNames}

UpdateUploads == {None, Some(<<"a", ".", "p">>)}

FileOutcomes == {"ok", "open_failed", "write_failed"}

(***************************************************************************)
(* The system.                                                             *)
(***************************************************************************)
EmptyTable == [k \in {} |-> 0]

Init ==
    /\ categories = EmptyTable
    /\ expenses = EmptyTable
    /\ files = {}
    /\ nextCategory = 1
    /\ nextExpense = 1
    /\ nextFile = 1
    /\ now = 0
    /\ req = NoReq
    /\ resp = Response(0, "", 0, "", None)
    /\ tasks = <<>>
    /\ sessions = {}

NextCategory ==
    \/ \E n \in Names, a \in BOOLEAN, ok \in BOOLEAN : create_category_endpoint(n, a, ok)
    \/ \E i \in CategoryIds : get_category_endpoint(i)
    \/ \E i \in CategoryIds, n \in Names, a \in BOOLEAN, ok \in BOOLEAN : update_category_endpoint(i, n, a, ok)
    \/ \E i \in CategoryIds, ok \in BOOLEAN : mark_category_as_inactive_endpoint(i, ok)
    \/ list_active_categories_endpoint

NextExpense ==
    \/ \E u \in Users, e \in CreateBodies, f \in Uploads, w \in FileOutcomes, ok \in BOOLEAN :
            /\ HasFile(f) \/ w = "ok"
            /\ w = "ok" \/ ok
            /\ create_expense_endpoint(u, e, f, w, ok)
    \/ \E u \in Users, i \in ExpenseIds : get_expense_endpoint(u, i)
    \/ \E u \in Users, i \in ExpenseIds, e \in UpdateBodies, f \in UpdateUploads :
            update_expense_endpoint(u, i, e, f, TRUE)
    \/ \E u \in Users, i \in ExpenseIds, ok \in BOOLEAN : delete_expense_endpoint(u, i, ok)
    \/ \E u \in Users : list_expenses_endpoint(u)

Next == NextCategory \/ NextExpense

\* the whole service, from empty tables
Spec == Init /\ [][Next]_vars

\* the category routes alone: no expense route reads or writes a category row
\* that these routes do not, so the category table evolves as in Spec
SpecCategory == Init /\ [][NextCategory]_vars

\* the expense routes, started after two categories were created and the second
\* marked inactive: the expense routes read the category table only to tell a
\* stored category_id from one that is not stored
InitExpense ==
    /\ categories = Put(Put(EmptyTable, 1, [name |-> "Travel", is_active |-> TRUE]),
                        2, [name |-> "Food", is_active |-> FALSE])
    /\ expenses = EmptyTable
    /\ files = {}
    /\ nextCategory = 3
    /\ nextExpense = 1
    /\ nextFile = 1
    /\ now = 0
    /\ req = [NoReq EXCEPT !.op = "mark_category_as_inactive", !.id = 2]
    /\ resp = Response(200, "", 0, "", Some([message |-> "Category inactived successfully", result |-> TRUE]))
    /\ tasks = <<>>
    /\ sessions = {}

SpecExpense == InitExpense /\ [][NextExpense]_vars

\* credentials of a user, and credentials get_current_user refuses
Credentials == {"alice", "mallory"}

\* bodies of POST and PUT /categories: a valid one, a name of one character,
\* no name, and bodies that hold no JSON object
CategoryBodies ==
    {JsonText("object", Some(m)) : m \in {[name |-> Some("Travel"), is_active |-> None],
                                           [name |-> Some("T"), is_active |-> Some(TRUE)],
                                           [name |-> None, is_active |-> Some(TRUE)]}}
    \cup MalformedBodies

\* every route, requested with and without valid credentials and with valid
\* and invalid bodies, a file uploaded with every multipart form, while the
\* file system and the database work
NextRequest ==
    \/ \E b \in CategoryBodies : POST_categories(b, TRUE)
    \/ \E i \in CategoryIds, b \in CategoryBodies : PUT_categories(i, b, TRUE)
    \/ \E c \in Credentials, e \in CreateBodies \cup InvalidCreateBodies :
            POST_expenses(c, e, Some(<<"a", ".", "p">>), "ok", TRUE)
    \/ \E c \in Credentials : GET_expenses(c)
    \/ \E c \in Credentials, i \in ExpenseIds : GET_expense(c, i)
    \/ \E c \in Credentials, i \in ExpenseIds, e \in UpdateBodies \cup InvalidUpdateBodies :
            PUT_expense(c, i, e, Some(<<"a", ".", "p">>), TRUE)
    \/ \E c \in Credentials, i \in ExpenseIds : DELETE_expense(c, i, TRUE)

SpecRequest == InitExpense /\ [][NextRequest]_vars

(***************************************************************************)
(* Categories that expenses reference.  The requests start after two       *)
(* categories were created, one expense was created in each by a different *)
(* user, and the second category was marked inactive.                      *)
(***************************************************************************)
\* valid bodies of PUT /categories/{id}: is_active left out, false, or true
UpdateCategoryBodies ==
    {JsonText("object", Some([name |-> Some(n), is_active |-> a])) :
         n \in Names, a \in {None, Some(FALSE), Some(TRUE)}}

\* the expenses stored at the start, made by create_expense
HistoricExpenses ==
    LET p == CHOOSE e \in CreatePayloads : e.category_id = 1
        cats == Put(Put(EmptyTable, 1, [name |-> "Travel", is_active |-> TRUE]),
                    2, [name |-> "Food", is_active |-> TRUE])
        first == create_expense(EmptyTable, cats, 1, "alice", p, None, 1, "ok", 1, TRUE).exps
    IN  create_expense(first, cats, 2, "bob", [p EXCEPT !.category_id = 2], None, 1, "ok", 2, TRUE).exps

InitHistoric ==
    /\ categories = Put(Put(EmptyTable, 1, [name |-> "Travel", is_active |-> TRUE]),
                        2, [name |-> "Food", is_active |-> FALSE])
    /\ expenses = HistoricExpenses
    /\ files = {}
    /\ nextCategory = 3
    /\ nextExpense = 3
    /\ nextFile = 1
    /\ now = 2
    /\ req = [NoReq EXCEPT !.op = "mark_category_as_inactive", !.id = 2]
    /\ resp = Response(200, "", 0, "", Some([message |-> "Category inactived successfully", result |-> TRUE]))
    /\ tasks = <<>>
    /\ sessions = {}

NextHistoric ==
    \/ \E i \in CategoryIds, ok \in BOOLEAN : mark_category_as_inactive_endpoint(i, ok)
    \/ \E i \in CategoryIds, b \in UpdateCategoryBodies : PUT_categories(i, b, TRUE)
    \/ \E i \in CategoryIds : get_category_endpoint(i)
    \/ list_active_categories_endpoint
    \/ \E u \in Users, i \in ExpenseIds : get_expense_endpoint(u, i)
    \/ \E u \in Users : list_expenses_endpoint(u)
    \/ \E u \in Users, i \in ExpenseIds : delete_expense_endpoint(u, i, TRUE)

SpecHistoric == InitHistoric /\ [][NextHistoric]_vars

(***************************************************************************)
(* Requests served concurrently.  Every request is a task of the event     *)
(* loop; a task runs from one await to the next without interruption, so   *)
(* it takes one step per database call it awaits: the query, and the       *)
(* commit.  The database runs each statement and each commit atomically    *)
(* and checks the declared constraints when it commits.                    *)
(***************************************************************************)
MaxRequests == 2

\* a request that has its session and whose route function has not run yet
Task(op, i, name, is_active, body, session) ==
    [op |-> op, id |-> i, name |-> name, is_active |-> is_active, body |-> body,
     session |-> session, pc |-> "opened", existing |-> FALSE, status |-> 0, tmpl |-> ""]

\* the requests sent concurrently: POST /categories, PUT /categories/{id} for
\* a stored id and for one that is not stored, and a POST /expenses whose form
\* field is unparseable; session 0 stands for "not opened yet"
ConcurrentRequests ==
    {Task("create_category", 0, n, TRUE, JsonText("none", None), 0) : n \in Names}
    \cup {Task("update_category", i, "Food", FALSE, JsonText("none", None), 0) :
              i \in {1, MaxCategories + 1}}
    \cup {Task("create_expense", 0, "", FALSE, JsonText("malformed", None), 0)}

\* variant: get_db yields one session made when the module is loaded
get_db_enter_Shared(request) ==
    /\ Len(tasks) < MaxRequests
    /\ tasks' = Append(tasks, [request EXCEPT !.session = 1])
    /\ sessions' = sessions \cup {1}
    /\ UNCHANGED <<categories, expenses, files, nextCategory, nextExpense, nextFile, now,
                   req, resp>>

\* get_db up to its yield, "async with AsyncSessionLocal() as session": every
\* call makes a session of its own
get_db_enter(request) ==
    LET session == Len(tasks) + 1
    IN  /\ Len(tasks) < MaxRequests
        /\ tasks' = Append(tasks, [request EXCEPT !.session = session])
        /\ sessions' = sessions \cup {session}
        /\ UNCHANGED <<categories, expenses, files, nextCategory, nextExpense, nextFile, now,
                       req, resp>>

\* variant: the session is closed after the yield without try/finally, so
\* only when the route function returned
get_db_exit_OnReturn(open, session, status) ==
    IF status < 400 THEN open \ {session} ELSE open

\* get_db after its yield, "finally: await session.close()": status is the
\* response's, an error status when the route function raised
get_db_exit(open, session, status) == open \ {session}

\* the route function has answered
Responded(t, existing, response) ==
    [tasks EXCEPT ![t].pc = "responded", ![t].existing = existing,
                  ![t].status = response.status, ![t].tmpl = response.tmpl]

\* create_category_endpoint to the return of get_category_by_name
create_category_query(t) ==
    LET task == tasks[t]
        existing_category == get_category_by_name(categories, task.name)
    IN  /\ task.op = "create_category" /\ task.pc = "opened"
        /\ tasks' = IF existing_category # None
                     THEN Responded(t, TRUE, create_category_handlers(
                                        RaiseHTTP(400, "category_exists", 0, task.name), task.name))
                     ELSE [tasks EXCEPT ![t].pc = "queried"]
        /\ UNCHANGED <<categories, expenses, files, nextCategory, nextExpense, nextFile, now,
                       req, resp, sessions>>

\* create_category_endpoint from there to its response: create_category commits
create_category_commit(t) ==
    LET task == tasks[t]
        r == create_category(categories, nextCategory, task.name, task.is_active, TRUE)
    IN  /\ task.op = "create_category" /\ task.pc = "queried"
        /\ categories' = r.cats
        /\ nextCategory' = IF r.out.exc = "None" THEN nextCategory + 1 ELSE nextCategory
        /\ tasks' = Responded(t, FALSE, create_category_handlers(r.out, task.name))
        /\ UNCHANGED <<expenses, files, nextExpense, nextFile, now, req, resp, sessions>>

\* update_category_endpoint to the return of update_category's select
update_category_query(t) ==
    LET task == tasks[t]
        out == get_category_by_id(categories, task.id)
    IN  /\ task.op = "update_category" /\ task.pc = "opened"
        /\ tasks' = IF out.exc # "None"
                     THEN Responded(t, FALSE, id_handlers(out, 200, "category_update_not_found",
                                                          "unexpected_error_update", task.id))
                     ELSE [tasks EXCEPT ![t].pc = "queried", ![t].existing = TRUE]
        /\ UNCHANGED <<categories, expenses, files, nextCategory, nextExpense, nextFile, now,
                       req, resp, sessions>>

\* update_category_endpoint from there to its response: update_category
\* assigns the row it selected and commits
update_category_commit(t) ==
    LET task == tasks[t]
        r == update_category(categories, task.id, task.name, task.is_active, TRUE)
    IN  /\ task.op = "update_category" /\ task.pc = "queried"
        /\ categories' = r.cats
        /\ tasks' = Responded(t, TRUE, id_handlers(r.out, 200, "category_update_not_found",
                                                   "unexpected_error_update", task.id))
        /\ UNCHANGED <<expenses, files, nextCategory, nextExpense, nextFile, now, req, resp,
                       sessions>>

\* create_expense_endpoint on a form field json.loads refuses: it awaits
\* nothing before it answers
create_expense_refuse(t) ==
    LET task == tasks[t]
        expense_data == json_loads(task.body)
    IN  /\ task.op = "create_expense" /\ task.pc = "opened"
        /\ expense_data.exc # "None"
        /\ tasks' = Responded(t, FALSE, create_expense_handlers(expense_data, None))
        /\ UNCHANGED <<categories, expenses, files, nextCategory, nextExpense, nextFile, now,
                       req, resp, sessions>>

\* the framework leaves get_db once the route function has returned or raised
session_close(t) ==
    LET task == tasks[t]
    IN  /\ task.pc = "responded"
        /\ sessions' = get_db_exit(sessions, task.session, task.status)
        /\ tasks' = [tasks EXCEPT ![t].pc = "closed"]
        /\ UNCHANGED <<categories, expenses, files, nextCategory, nextExpense, nextFile, now,
                       req, resp>>

\* the steps of the task that arrived as the t-th
TaskStep(t) ==
    /\ t \in DOMAIN tasks
    /\ \/ create_category_query(t)
       \/ create_category_commit(t)
       \/ update_category_query(t)
       \/ update_category_commit(t)
       \/ create_expense_refuse(t)
       \/ session_close(t)

NextConcurrent ==
    \/ \E request \in ConcurrentRequests : get_db_enter(request)
    \/ \E t \in DOMAIN tasks : create_category_query(t)
    \/ \E t \in DOMAIN tasks : create_category_commit(t)
    \/ \E t \in DOMAIN tasks : update_category_query(t)
    \/ \E t \in DOMAIN tasks : update_category_commit(t)
    \/ \E t \in DOMAIN tasks : create_expense_refuse(t)
    \/ \E t \in DOMAIN tasks : session_close(t)

\* one category is stored when the concurrent requests arrive
InitConcurrent ==
    /\ categories = Put(EmptyTable, 1, [name |-> "Travel", is_active |-> TRUE])
    /\ expenses = EmptyTable
    /\ files = {}
    /\ nextCategory = 2
    /\ nextExpense = 1
    /\ nextFile = 1
    /\ now = 0
    /\ req = [NoReq EXCEPT !.op = "create_category", !.name = "Travel", !.is_active = TRUE]
    /\ resp = Response(201, "", 0, "", Some([category_id |-> 1, name |-> "Travel", is_active |-> TRUE]))
    /\ tasks = <<>>
    /\ sessions = {}

SpecConcurrent == InitConcurrent /\ [][NextConcurrent]_vars

\* the event loop runs every task that is ready
SpecConcurrentFair == SpecConcurrent /\ \A t \in 1..MaxRequests : WF_vars(TaskStep(t))

(***************************************************************************)
(* Properties of the category routes, checked under SpecCategory.          *)
(***************************************************************************)
\* C1: a POST /categories whose name a stored category (active or inactive)
\* already has is answered 400 with the 'already exists' message, and the
\* stored categories are unchanged.
C1_DuplicateNameIsConflict ==
    [][(req'.op = "create_category" /\ get_category_by_name(categories, req'.name) # None)
        => /\ resp'.status = 400
           /\ resp'.tmpl = "category_exists"
           /\ resp'.name = req'.name
           /\ categories' = categories]_vars

\* what the code does on a duplicate name: the HTTPException(400) raised inside
\* the try block is caught by "except Exception" and answered as 500
C1_DuplicateNameIsAnswered500 ==
    [][(req'.op = "create_category" /\ get_category_by_name(categories, req'.name) # None)
        => /\ resp'.status = 500
           /\ resp'.tmpl = "unexpected_error_create"
           /\ categories' = categories]_vars

NotFoundTemplate(op) ==
    CASE op = "get_category" -> "category_not_found"
      [] op = "update_category" -> "category_update_not_found"
      [] op = "mark_category_as_inactive" -> "category_deletion_not_found"

\* the resource manager's functions, called with an id that is not stored
C2_ManagersRaiseNotFound ==
    \A i \in CategoryIds \ DOMAIN categories :
        /\ get_category_by_id(categories, i).exc = "ValueError"
        /\ \A n \in Names, a \in BOOLEAN, ok \in BOOLEAN :
               /\ update_category(categories, i, n, a, ok).out.exc = "ValueError"
               /\ update_category(categories, i, n, a, ok).cats = categories
        /\ \A ok \in BOOLEAN :
               /\ mark_category_as_inactive(categories, i, ok).out.exc = "ValueError"
               /\ mark_category_as_inactive(categories, i, ok).cats = categories

\* the routes, requested with an id that is not stored
C2_RoutesAnswer404 ==
    (/\ req'.op \in {"get_category", "update_category", "mark_category_as_inactive"}
     /\ req'.id \notin DOMAIN categories)
    => /\ resp'.status = 404
       /\ resp'.tmpl = NotFoundTemplate(req'.op)
       /\ resp'.id = req'.id
       /\ categories' = categories

\* C2: for a category id that is not stored, get_category_by_id, update_category
\* and mark_category_as_inactive raise ValueError, the routes answer 404 with
\* their not-found message, and the stored categories are unchanged.
C2_AbsentCategoryIsNotFound == []C2_ManagersRaiseNotFound /\ [][C2_RoutesAnswer404]_vars

C2_Witness ==
    /\ req.op \in {"get_category", "update_category", "mark_category_as_inactive"}
    /\ req.id \notin DOMAIN categories
    /\ categories # EmptyTable
    /\ resp.status = 404

\* the step that marks the category
C3_MarkKeepsRow ==
    (req'.op = "mark_category_as_inactive" /\ resp'.status = 200)
    => /\ req'.id \in DOMAIN categories
       /\ get_category_by_id(categories', req'.id) =
              Return([category_id |-> req'.id, name |-> categories[req'.id].name, is_active |-> FALSE])

\* the GET that follows it
C3_GetAfterMark ==
    (/\ req.op = "mark_category_as_inactive" /\ resp.status = 200
     /\ req'.op = "get_category" /\ req'.id = req.id)
    => /\ req.id \in DOMAIN categories
       /\ resp'.status = 200
       /\ resp'.body = Some([category_id |-> req.id, name |-> categories[req.id].name,
                             is_active |-> FALSE])

\* C3: after mark_category_as_inactive succeeded the row is still stored, with
\* the id and name it had and is_active = FALSE, and a GET of the same id that
\* follows is answered 200 with that row.
C3_InactiveCategoryStaysStored == [][C3_MarkKeepsRow /\ C3_GetAfterMark]_vars

C3_Witness ==
    /\ req.op = "mark_category_as_inactive"
    /\ resp.status = 200
    /\ req.id \in DOMAIN categories
    /\ ~categories[req.id].is_active

\* another stored category has the name
NameTaken(cats, category_id, name) ==
    \E j \in DOMAIN cats \ {category_id} : cats[j].name = name

\* update_category on a stored row, the database committing what it can
C13_ManagerReplaces(taken_fails) ==
    \A i \in DOMAIN categories, n \in Names, a \in BOOLEAN :
        LET r == update_category(categories, i, n, a, TRUE)
        IN  IF taken_fails /\ NameTaken(categories, i, n)
            THEN r.out.exc = "RuntimeError" /\ r.cats = categories
            ELSE /\ r.out.exc = "None"
                 /\ r.cats = Put(categories, i, [name |-> n, is_active |-> a])
                 /\ r.out.val = Some([category_id |-> i, name |-> n, is_active |-> a])

\* C13 as stated: for every stored category id and every valid payload
\* {name, is_active}, update_category succeeds, the stored category has
\* exactly the payload's name and is_active and the returned entity equals the
\* stored one, also when another stored category has the payload's name.
C13_UpdateReplacesWithAnyName == C13_ManagerReplaces(FALSE)

\* PUT /categories/{id} on a stored row
C13_RouteReplaces ==
    (req'.op = "update_category" /\ req'.id \in DOMAIN categories)
    => /\ resp'.status \in {200, 500}
       /\ resp'.status = 200
              => /\ ~NameTaken(categories, req'.id, req'.name)
                 /\ categories' = Put(categories, req'.id,
                                       [name |-> req'.name, is_active |-> req'.is_active])
                 /\ resp'.body = Some([category_id |-> req'.id, name |-> req'.name,
                                       is_active |-> req'.is_active])
       /\ resp'.status = 500 => (resp'.tmpl = "unexpected_error_update" /\ categories' = categories)
       /\ NameTaken(categories, req'.id, req'.name) => resp'.status = 500

\* C13, amended: for every stored category id and every valid payload whose
\* name no other stored category has, update_category succeeds when the
\* commit does, the stored category has exactly the payload's name and
\* is_active and the returned entity equals the stored one; when another
\* stored category has the name, the commit fails on the unique constraint,
\* update_category raises RuntimeError (answered 500) and the stored
\* categories are unchanged.
C13_UpdateReplacesUnlessNameTaken == []C13_ManagerReplaces(TRUE) /\ [][C13_RouteReplaces]_vars

C13_Witness ==
    /\ req.op = "update_category"
    /\ resp.status = 200
    /\ Cardinality(DOMAIN categories) = 2
    /\ categories[req.id] = [name |-> req.name, is_active |-> req.is_active]
    /\ resp.body = Some(CategoryEntity(categories, req.id))

\* the function's result in a state
C15_ManagerListsActive ==
    LET result == get_active_categories(categories)
    IN  /\ \A i \in DOMAIN categories :
               categories[i].is_active
                   <=> [category_id |-> i, name |-> categories[i].name, is_active |-> TRUE] \in result
        /\ \A c \in result :
               /\ c.is_active
               /\ c.category_id \in DOMAIN categories
               /\ categories[c.category_id] = [name |-> c.name, is_active |-> TRUE]

\* GET /categories/active
C15_RouteListsActive ==
    req'.op = "list_active_categories"
    => /\ resp'.status = 200
       /\ resp'.body = Some({[category_id |-> i, name |-> categories[i].name, is_active |-> TRUE] :
                                 i \in {j \in DOMAIN categories : categories[j].is_active}})
       /\ categories' = categories

\* C15: in every state get_active_categories returns exactly the stored
\* categories whose is_active is true, whatever creates, updates and
\* mark-inactive operations came before.
C15_ActiveCategoriesListed == []C15_ManagerListsActive /\ [][C15_RouteListsActive]_vars

C15_Witness ==
    /\ req.op = "list_active_categories"
    /\ \E i, j \in DOMAIN categories : categories[i].is_active /\ ~categories[j].is_active
    /\ Cardinality(resp.body[1]) = 1

\* the rows the category manager's functions leave stored, whatever they are
\* called with and whether or not the commit succeeds
C22_ManagersKeepRows ==
    \A n \in Names, a \in BOOLEAN, ok \in BOOLEAN :
        /\ DOMAIN categories \subseteq DOMAIN create_category(categories, nextCategory, n, a, ok).cats
        /\ \A i \in CategoryIds :
               /\ DOMAIN update_category(categories, i, n, a, ok).cats = DOMAIN categories
               /\ DOMAIN mark_category_as_inactive(categories, i, ok).cats = DOMAIN categories

\* a step of a category route: no id goes, and PATCH /categories/{id}/inactive
\* keeps the row it marks
C22_RoutesKeepRows ==
    /\ DOMAIN categories \subseteq DOMAIN categories'
    /\ (req'.op = "mark_category_as_inactive" /\ resp'.status = 200)
           => /\ DOMAIN categories' = DOMAIN categories
              /\ req'.id \in DOMAIN categories'
              /\ ~categories'[req'.id].is_active

\* C22: no operation removes a category: over any sequence of operations the
\* set of stored category ids only grows, and marking a category inactive, the
\* only deletion path, keeps the row.
C22_CategoriesAreNeverRemoved == []C22_ManagersKeepRows /\ [][C22_RoutesKeepRows]_vars

C22_Witness ==
    /\ req.op = "mark_category_as_inactive"
    /\ resp.status = 200
    /\ Cardinality(DOMAIN categories) = MaxCategories
    /\ \A i \in DOMAIN categories : ~categories[i].is_active

(***************************************************************************)
(* Properties of the expense routes, checked under SpecExpense.            *)
(***************************************************************************)
NullableFields == {"description", "employee", "invoice_image"}

\* a column's value as an optional
Column(row, f) == IF f \in NullableFields THEN row[f] ELSE Some(row[f])

\* C4: a PUT /expenses/{id} on a stored expense with a valid partial payload
\* is answered 200 with the updated expense; every field the payload holds has
\* the payload's value afterwards and every field it leaves out is unchanged.
C4_UpdateMergesPayload ==
    [][(req'.op = "update_expense" /\ req'.id \in DOMAIN expenses)
        => /\ resp'.status = 200
           /\ req'.id \in DOMAIN expenses'
           /\ resp'.body = Some(ExpenseEntity(expenses', req'.id))
           /\ \A f \in ExpenseUpdateFields :
                  IF req'.payload[1][f] # None
                  THEN Column(expenses'[req'.id], f) = req'.payload[1][f]
                  ELSE expenses'[req'.id][f] = expenses[req'.id][f]]_vars

\* what the code does: the route passes update_expense one argument too many,
\* the TypeError is answered 500 and the row stays as it was
C4_UpdateIsAnswered500 ==
    [][req'.op = "update_expense" => (resp'.status = 500 /\ expenses' = expenses)]_vars

\* C5: a PUT /expenses/{id} with a valid payload for an id that is not stored
\* is answered 404 with the 'for update' not-found message, and the stored
\* expenses are unchanged.
C5_UpdateAbsentIsNotFound ==
    [][(req'.op = "update_expense" /\ req'.id \notin DOMAIN expenses)
        => /\ resp'.status = 404
           /\ resp'.tmpl = "expense_update_not_found"
           /\ resp'.id = req'.id
           /\ expenses' = expenses]_vars

\* the ids of the expenses that were stored and are not any more
Deleted == (1..(nextExpense - 1)) \ DOMAIN expenses

\* the step that deletes: that row goes, every other row and category stays
C6_DeleteStep ==
    (req'.op = "delete_expense" /\ resp'.status = 200)
    => /\ req'.id \in DOMAIN expenses
       /\ get_expense_by_id(expenses', req'.id).exc = "ValueError"
       /\ \A e \in get_expenses(expenses') : e.expenses_id # req'.id
       /\ \A j \in DOMAIN expenses \ {req'.id} : j \in DOMAIN expenses' /\ expenses'[j] = expenses[j]
       /\ categories' = categories

\* every step after it
C6_StaysDeleted ==
    \A i \in Deleted :
        /\ i \notin DOMAIN expenses'
        /\ (req'.op = "get_expense" /\ req'.id = i) => resp'.status = 404

\* C6: a successful delete_expense removes that expense and nothing else, and
\* a deleted expense stays deleted: every later get_expense_by_id of its id is
\* NotFound and get_expenses never holds it again.
C6_DeleteIsPermanent == [][C6_DeleteStep /\ C6_StaysDeleted]_vars

C6_Witness ==
    /\ req.op = "delete_expense"
    /\ resp.status = 200
    /\ req.id \in Deleted
    /\ expenses # EmptyTable

\* the resource manager's functions, called with an id that is not stored
C7_ManagersRaiseNotFound ==
    \A i \in ExpenseIds \ DOMAIN expenses :
        /\ get_expense_by_id(expenses, i).exc = "ValueError"
        /\ \A ok \in BOOLEAN :
               /\ delete_expense(expenses, i, ok).out.exc = "ValueError"
               /\ delete_expense(expenses, i, ok).exps = expenses

\* the routes, requested with an id that is not stored
C7_RoutesAnswer404 ==
    (req'.op \in {"get_expense", "delete_expense"} /\ req'.id \notin DOMAIN expenses)
    => /\ resp'.status = 404
       /\ resp'.tmpl = (IF req'.op = "get_expense" THEN "expense_not_found"
                        ELSE "expense_deletion_not_found")
       /\ resp'.id = req'.id
       /\ expenses' = expenses

\* C7: for an expense id that is not stored, get_expense_by_id and
\* delete_expense raise ValueError, the routes answer 404, and the stored
\* expenses are unchanged.
C7_AbsentExpenseIsNotFound == []C7_ManagersRaiseNotFound /\ [][C7_RoutesAnswer404]_vars

C7_Witness ==
    /\ req.op \in {"get_expense", "delete_expense"}
    /\ req.id \notin DOMAIN expenses
    /\ expenses # EmptyTable
    /\ resp.status = 404

\* file names of up to MaxNameLen characters
FileNames == UNION {[1..n -> {"a", ".", "/"}] : n \in 0..MaxNameLen}

\* the generated name differs from the uploaded one and has its extension
C8_GeneratedNames ==
    \A f \in FileNames \ {<<>>} :
        /\ generated_filename(nextFile, f) # f
        /\ splitext(generated_filename(nextFile, f)) = splitext(f)

\* the step that creates an expense with an uploaded file
C8_CreateStep ==
    (req'.op = "create_expense" /\ resp'.status = 201 /\ HasFile(req'.upload))
    => LET created == resp'.body[1]
       IN  /\ created.invoice_image # None
           /\ files' \ files = {created.invoice_image[1]}
           /\ files \subseteq files'
           /\ created.invoice_image[1] # req'.upload[1]
           /\ splitext(created.invoice_image[1]) = splitext(req'.upload[1])
           /\ created.expenses_id \in DOMAIN expenses' \ DOMAIN expenses
           /\ expenses'[created.expenses_id].invoice_image = created.invoice_image
           /\ C8_GeneratedNames

\* C8: a create_expense that succeeds with an uploaded file that has a name
\* stores exactly one new file, under a generated name that no stored file had
\* and that differs from the uploaded name, with the uploaded name's
\* extension, and the created expense's invoice_image is that name.
C8_InvoiceStoredUnderFreshName == [][C8_CreateStep]_vars

C8_Witness ==
    /\ req.op = "create_expense"
    /\ resp.status = 201
    /\ HasFile(req.upload)
    /\ Cardinality(files) >= 2

\* create_expense, called when the file system refuses the write
C9_ManagerRaises ==
    \A u \in Users, e \in CreatePayloads, f \in UploadNames \ {<<>>}, ok \in BOOLEAN,
       w \in {"open_failed", "write_failed"} :
        LET r == create_expense(expenses, categories, nextExpense, u, e, Some(f), nextFile, w,
                                now + 1, ok)
        IN  r.out.exc = "RuntimeError" /\ r.exps = expenses

\* the route, when the file system refused the write
C9_RouteAnswers500 ==
    (req'.op = "create_expense" /\ req'.io \in {"open_failed", "write_failed"})
    => /\ expenses' = expenses
       /\ resp'.status = 500
       /\ resp'.tmpl = "expense_unexpected_error_create"
       /\ resp'.name = req'.payload[1].subject

\* C9: when writing the invoice file fails, create_expense raises RuntimeError,
\* no expense row is committed and the request is answered 500.
C9_FailedWriteAbortsCreate == []C9_ManagerRaises /\ [][C9_RouteAnswers500]_vars

C9_Witness ==
    /\ req.op = "create_expense"
    /\ req.io = "write_failed"
    /\ resp.status = 500
    /\ expenses # EmptyTable

C10_UpdatedAtSetOnceByCreate ==
    [][/\ (req'.op = "create_expense" /\ resp'.status = 201)
              => (resp'.body[1].updated_at = now' /\ now' > now)
       /\ \A i \in DOMAIN expenses \cap DOMAIN expenses' :
              expenses'[i].updated_at = expenses[i].updated_at]_vars

\* the references of the stored expenses
C19_ReferencesStored ==
    \A e \in DOMAIN expenses :
        /\ \E c \in DOMAIN categories : c = expenses[e].category_id
        /\ \E u \in Users : u = expenses[e].user_id

\* a step: rows appear only by POST /expenses, with the request's user and
\* category, and keep both
C19_Step ==
    /\ (req'.op = "create_expense" /\ resp'.status = 201)
           => \E e \in DOMAIN expenses' \ DOMAIN expenses :
                  /\ DOMAIN expenses' = DOMAIN expenses \cup {e}
                  /\ expenses'[e].user_id = req'.user
                  /\ expenses'[e].category_id = req'.payload[1].category_id
                  /\ req'.payload[1].category_id \in DOMAIN categories
    /\ (req'.op = "create_expense" /\ req'.payload # None
            /\ req'.payload[1].category_id \notin DOMAIN categories)
           => (expenses' = expenses /\ resp'.status = 500)
    /\ DOMAIN expenses' \ DOMAIN expenses # {} => (req'.op = "create_expense" /\ resp'.status = 201)
    /\ \A e \in DOMAIN expenses \cap DOMAIN expenses' :
           /\ expenses'[e].user_id = expenses[e].user_id
           /\ expenses'[e].category_id = expenses[e].category_id

\* C19: in every reachable state every stored expense has the category_id of
\* a stored category and the user_id of the authenticated user whose request
\* created it; a create request that names a category id that is not stored
\* persists no expense.
C19_ExpenseReferences == []C19_ReferencesStored /\ [][C19_Step]_vars

C19_Witness ==
    /\ req.op = "create_expense"
    /\ resp.status = 201
    /\ \E e, f \in DOMAIN expenses : expenses[e].user_id # expenses[f].user_id
    /\ \A e \in DOMAIN expenses : expenses[e].category_id \in DOMAIN categories

\* update_expense, called on a stored expense: the row it has assigned to and
\* the table it leaves
C25_ManagerKeepsKeys ==
    \A i \in DOMAIN expenses, p \in UpdatePayloads :
        LET row == update_expense_assign(expenses[i], p, now + 1)
        IN  /\ row.user_id = expenses[i].user_id
            /\ row.category_id = expenses[i].category_id
            /\ \A ok \in BOOLEAN :
                   LET r == update_expense(expenses, i, p, now + 1, ok)
                   IN  /\ DOMAIN r.exps = DOMAIN expenses
                       /\ r.exps[i].user_id = expenses[i].user_id
                       /\ r.exps[i].category_id = expenses[i].category_id

\* ids are drawn in order, so an id that was stored is never drawn again
C25_IdsAreFresh == \A e \in DOMAIN expenses : e < nextExpense

\* a step of an expense route: a stored expense keeps its user and category,
\* a new row has the id drawn for it, and a PUT /expenses/{id} neither adds
\* nor removes an id
C25_Step ==
    /\ expenses' # expenses
           => /\ \A e \in DOMAIN expenses \cap DOMAIN expenses' :
                     /\ expenses'[e].user_id = expenses[e].user_id
                     /\ expenses'[e].category_id = expenses[e].category_id
              /\ DOMAIN expenses' \ DOMAIN expenses \subseteq {nextExpense}
    /\ nextExpense' >= nextExpense
    /\ req'.op = "update_expense" => DOMAIN expenses' = DOMAIN expenses

\* C25: after an expense is created no operation changes its expenses_id, its
\* user_id or its category_id: update_expense leaves the three unchanged for
\* every payload, one that carries a category_id included.
C25_KeysAreNeverChanged ==
    [](C25_ManagerKeepsKeys /\ C25_IdsAreFresh) /\ [][C25_Step]_vars

\* a PUT whose payload carries another category_id, on an expense of category 1
C25_Witness ==
    /\ req.op = "update_expense"
    /\ req.id \in DOMAIN expenses
    /\ req.payload # None
    /\ req.payload[1].category_id # None
    /\ req.payload[1].category_id[1] # expenses[req.id].category_id

\* the invoice of every stored expense is a stored file
C24_InvoicesStored ==
    \A e \in DOMAIN expenses :
        expenses[e].invoice_image # None => expenses[e].invoice_image[1] \in files

\* a step of an expense route: no file goes; a delete leaves the files as they
\* are, the deleted expense's invoice included; a create that wrote its file
\* and then failed leaves the file; a written file has a name no file had
C24_Step ==
    /\ files \subseteq files'
    /\ (req'.op = "delete_expense" /\ resp'.status = 200)
           => /\ files' = files
              /\ req'.id \notin DOMAIN expenses'
              /\ expenses[req'.id].invoice_image # None
                     => expenses[req'.id].invoice_image[1] \in files'
    /\ (req'.op = "create_expense" /\ HasFile(req'.upload) /\ req'.io \in {"ok", "write_failed"})
           => /\ Cardinality(files' \ files) = 1
              /\ resp'.status # 201
                     => /\ expenses' = expenses
                        /\ \A f \in files' \ files, e \in DOMAIN expenses' :
                               expenses'[e].invoice_image # Some(f)

\* C24: no operation removes or overwrites a stored invoice file: the set of
\* stored files only grows, so the file written for an expense stays in the
\* upload directory after that expense is deleted and after a creation whose
\* commit failed.
C24_InvoiceFilesAreNeverRemoved == []C24_InvoicesStored /\ [][C24_Step]_vars

\* an expense with an invoice was deleted, or its creation failed after the
\* write: files are stored that no expense names
C24_Witness ==
    /\ req.op = "delete_expense"
    /\ resp.status = 200
    /\ expenses = EmptyTable
    /\ Cardinality(files) = MaxFiles

\* a step of GET /expenses, GET /expenses/{id} or DELETE /expenses/{id} is
\* the step of the same request sent by any authenticated user: the response
\* and the stored state after it are the same for all of them
C27_SameStepForEveryUser ==
    /\ req'.op = "list_expenses" => \A v \in Users : list_expenses_endpoint(v)
    /\ req'.op = "get_expense" => \A v \in Users : get_expense_endpoint(v, req'.id)
    /\ req'.op = "delete_expense"
           => \E ok \in BOOLEAN : \A v \in Users : delete_expense_endpoint(v, req'.id, ok)

\* what the three routes answer: every stored expense, whoever created it
C27_AnswersAllExpenses ==
    /\ req'.op = "list_expenses"
           => resp'.body = Some({ExpenseEntity(expenses, e) : e \in DOMAIN expenses})
    /\ (req'.op = "get_expense" /\ req'.id \in DOMAIN expenses)
           => resp'.body = Some(ExpenseEntity(expenses, req'.id))
    /\ (req'.op = "delete_expense" /\ req'.id \in DOMAIN expenses)
           => (resp'.status = 200 /\ req'.id \notin DOMAIN expenses')
              \/ (resp'.status = 500 /\ expenses' = expenses)

\* C27: the outcome of GET /expenses, GET /expenses/{id} and DELETE
\* /expenses/{id} does not depend on which authenticated user sends the
\* request: the response and the resulting stored state are the same, so a user
\* reads and deletes an expense whose user_id is another user's.
C27_OutcomeIndependentOfUser == [][C27_SameStepForEveryUser /\ C27_AnswersAllExpenses]_vars

\* expenses of both users are stored and one of them is read; the step is a
\* step of either user's request
C27_Witness ==
    /\ req.op = "get_expense"
    /\ resp.status = 200
    /\ \E e \in DOMAIN expenses : expenses[e].user_id # resp.body[1].user_id

(***************************************************************************)
(* Properties of the routes as served, checked under SpecRequest.          *)
(***************************************************************************)
\* the message functions of utilities/messages/exceptions/http/exc_details.py
Templates == {
    "category_not_found", "category_not_found_by_name", "category_exists",
    "category_update_not_found", "category_deletion_not_found", "unexpected_error_create",
    "unexpected_error_retrieve_by_id", "unexpected_error_retrieve_by_name",
    "unexpected_error_update", "unexpected_error_delete", "unexpected_error_list",
    "expense_not_found", "expense_exists", "expense_update_not_found",
    "expense_deletion_not_found", "expense_unexpected_error_create",
    "expense_unexpected_error_retrieve_by_id", "expense_unexpected_error_retrieve_by_name",
    "expense_unexpected_error_update", "expense_unexpected_error_delete",
    "expense_unexpected_error_list"}

\* a body that fails parsing or the schema of its route, told from the text
\* the client sent: no JSON, no object, or an object that lacks a required
\* member or breaks a constraint on subject, amount or name
Malformed(op, body) ==
    \/ body.json \in {"malformed", "array"}
    \/ /\ body.json = "object"
       /\ LET m == body.members[1]
          IN  CASE op = "create_expense" ->
                       \/ m.category_id = None \/ m.expense_date = None
                       \/ m.subject = None \/ m.amount = None
                       \/ Len(m.subject[1]) < 2 \/ m.amount[1] <= 0
                [] op = "update_expense" ->
                       \/ (m.subject # None /\ Len(m.subject[1]) < 2)
                       \/ (m.amount # None /\ m.amount[1] <= 0)
                [] OTHER -> m.name = None \/ Len(m.name[1]) < 2

\* C11: on every route a request whose body fails parsing or schema
\* validation is answered 400, POST /expenses and PUT /expenses/{id} with an
\* unparseable form field, a JSON value that is no object or an object that
\* violates a field constraint included.
C11_MalformedBodyIsAnswered400 ==
    [][Malformed(req'.op, req'.body) => resp'.status = 400]_vars

\* what the code answers: POST /expenses 400 unless the JSON value is no
\* object (500), PUT /expenses/{id} 404 unless the JSON value is no object
\* (500), the category routes 422
C11_MalformedBodyAnswers ==
    [][Malformed(req'.op, req'.body)
        => resp'.status =
              CASE req'.op = "create_expense" -> IF req'.body.json = "array" THEN 500 ELSE 400
                [] req'.op = "update_expense" -> IF req'.body.json = "array" THEN 500 ELSE 404
                [] OTHER -> 422]_vars

\* C12: the detail of every error response with status 400, 404 or 500 is
\* one of the templated messages, filled with the id, name or subject the
\* caller supplied; it never holds the text of an internal exception.
C12_ErrorDetailIsTemplated ==
    resp.status \in {400, 404, 500} => resp.tmpl \in Templates

\* what the code answers: the text of the exception, str(e), is the detail of
\* the 400 of POST /expenses, and a POST /expenses whose JSON value is no
\* object is answered by the server's plain "Internal Server Error"
C12_ErrorDetails ==
    /\ resp.status \in {400, 404, 500}
           => resp.tmpl \in Templates \cup {"str(e)", "Internal Server Error"}
    /\ (req.op = "create_expense" /\ Malformed(req.op, req.body))
           => resp.tmpl = (IF req.body.json = "array" THEN "Internal Server Error" ELSE "str(e)")
    /\ resp.tmpl \in {"str(e)", "Internal Server Error"}
           => (req.op = "create_expense" /\ Malformed(req.op, req.body))

\* nothing stored changed and no id, file name or clock reading was drawn
NothingRan == UNCHANGED <<categories, expenses, files, nextCategory, nextExpense, nextFile, now,
                          tasks, sessions>>

\* a request to an expense route with credentials get_current_user refuses
C14_RejectedStep ==
    \A c \in Credentials \ Users :
        (\/ \E e \in CreateBodies \cup InvalidCreateBodies :
                POST_expenses(c, e, Some(<<"a", ".", "p">>), "ok", TRUE)
         \/ GET_expenses(c)
         \/ \E i \in ExpenseIds : GET_expense(c, i)
         \/ \E i \in ExpenseIds, e \in UpdateBodies \cup InvalidUpdateBodies :
                PUT_expense(c, i, e, Some(<<"a", ".", "p">>), TRUE)
         \/ \E i \in ExpenseIds : DELETE_expense(c, i, TRUE))
        => /\ NothingRan
           /\ req'.rejected
           /\ resp'.status >= 400
           /\ resp'.body = None

\* C14: every expense route requires an authenticated user: when
\* get_current_user rejects the request no expense manager operation runs, no
\* expense data is returned and the stored expenses and files are unchanged.
C14_ExpenseRoutesRequireUser ==
    /\ [](\A c \in Credentials \ Users : get_current_user(c).exc = "HTTPException")
    /\ [][C14_RejectedStep]_vars
    /\ [][req'.rejected => (NothingRan /\ resp'.body = None)]_vars

C14_Witness ==
    /\ req.rejected
    /\ req.op = "delete_expense"
    /\ req.id \in DOMAIN expenses
    /\ files # {}

\* C16: a request whose body is rejected as malformed is rejected before any
\* resource manager operation: the stored categories, expenses and invoice
\* files are the same after the request as before it.
C16_MalformedBodyChangesNothing ==
    [][Malformed(req'.op, req'.body) => (NothingRan /\ resp'.status >= 400 /\ resp'.body = None)]_vars

C16_Witness ==
    /\ req.op = "create_expense"
    /\ Malformed(req.op, req.body)
    /\ req.body.json = "object"
    /\ HasFile(req.upload)
    /\ expenses # EmptyTable

(***************************************************************************)
(* Properties of categories that expenses reference, checked under         *)
(* SpecHistoric.                                                           *)
(***************************************************************************)
\* the expenses that reference a category
ExpensesOf(exps, category_id) == {e \in DOMAIN exps : exps[e].category_id = category_id}

\* the step that marks a category: its is_active is the only thing written
C23_MarkStep ==
    req'.op = "mark_category_as_inactive"
    => /\ expenses' = expenses
       /\ files' = files
       /\ IF resp'.status = 200
          THEN /\ req'.id \in DOMAIN categories
               /\ categories' = Put(categories, req'.id,
                                     [name |-> categories[req'.id].name, is_active |-> FALSE])
               /\ \A e \in ExpensesOf(expenses, req'.id) :
                      /\ get_expense_by_id(expenses', e) = Return(ExpenseEntity(expenses, e))
                      /\ ExpenseEntity(expenses, e) \in get_expenses(expenses')
                      /\ expenses'[e].category_id \in DOMAIN categories'
          ELSE categories' = categories

\* the expenses of an inactive category, as the expense routes answer them
C23_ReadsOfHistoricExpenses ==
    /\ (req'.op = "get_expense" /\ req'.id \in DOMAIN expenses)
           => (resp'.status = 200 /\ resp'.body = Some(ExpenseEntity(expenses, req'.id)))
    /\ req'.op = "list_expenses"
           => \A e \in DOMAIN expenses : ExpenseEntity(expenses, e) \in resp'.body[1]

\* C23: marking a category inactive changes only that category's is_active:
\* every expense that references the category is unchanged, still references
\* it and is still returned by get_expense_by_id and get_expenses, and every
\* other category is unchanged.
C23_MarkChangesOnlyIsActive == [][C23_MarkStep /\ C23_ReadsOfHistoricExpenses]_vars

\* a category with an expense was marked, and the expense is stored
C23_Witness ==
    /\ req.op = "mark_category_as_inactive"
    /\ resp.status = 200
    /\ req.id = 1
    /\ ExpensesOf(expenses, req.id) # {}
    /\ ~categories[req.id].is_active

\* update_category on an inactive category, with a name no other category has
C26_ManagerSetsIsActive ==
    \A i \in DOMAIN categories, n \in Names, a \in BOOLEAN :
        (~categories[i].is_active /\ ~NameTaken(categories, i, n))
        => LET r == update_category(categories, i, n, a, TRUE)
           IN  r.out.exc = "None" /\ r.cats[i].is_active = a /\ r.out.val[1].is_active = a

\* the body of a PUT that leaves is_active out
Omitting(name) == JsonText("object", Some([name |-> Some(name), is_active |-> None]))

\* a CategoryUpdate made of such a body has is_active = True
C26_SchemaDefault ==
    \A n \in Names : CategoryBase(Omitting(n)) = Return([name |-> n, is_active |-> TRUE])

\* PUT /categories/{id} with such a body, on a stored category
C26_PutStep ==
    \A i \in DOMAIN categories, n \in Names :
        (PUT_categories(i, Omitting(n), TRUE) /\ ~NameTaken(categories, i, n))
        => /\ resp'.status = 200
           /\ categories'[i] = [name |-> n, is_active |-> TRUE]
           /\ resp'.body = Some([category_id |-> i, name |-> n, is_active |-> TRUE])

\* C26: is_active = false is not a final state of a category: update_category
\* on an inactive category sets is_active to the payload's value, and a PUT
\* /categories/{id} whose payload leaves is_active out sets it to true, the
\* schema's default, so a category marked inactive becomes active again.
C26_InactiveIsNotFinal ==
    [](C26_ManagerSetsIsActive /\ C26_SchemaDefault) /\ [][C26_PutStep]_vars

\* category 2, inactive at the start, is active after a PUT
C26_Witness ==
    /\ req.op = "update_category"
    /\ req.id = 2
    /\ resp.status = 200
    /\ categories[2].is_active

(***************************************************************************)
(* Properties of the requests served concurrently, checked under           *)
(* SpecConcurrent and, where a request must come to an end, under          *)
(* SpecConcurrentFair.                                                     *)
(***************************************************************************)
\* the request has been answered
Answered(t) == tasks[t].pc \in {"responded", "closed"}

\* C17: in every reachable state, under any interleaving of concurrent
\* category create and update requests, no two stored categories have the
\* same name.
C17_NoTwoCategoriesShareAName ==
    \A i, j \in DOMAIN categories : i # j => categories[i].name # categories[j].name

\* a create whose pre-query found no category of the name, and whose commit
\* the database refused because a concurrent request had stored the name
C17_Witness ==
    \E t, u \in DOMAIN tasks :
        /\ tasks[t].op = "create_category" /\ Answered(t)
        /\ ~tasks[t].existing /\ tasks[t].status = 500
        /\ tasks[u].op = "update_category" /\ tasks[u].status = 200
        /\ tasks[u].name = tasks[t].name

\* two POST /categories with the same name, no other request creating or
\* updating a category to that name, and the name not stored beforehand
\* (Travel is)
C18_TwoCreates(t, u) ==
    /\ t # u
    /\ tasks[t].op = "create_category" /\ tasks[u].op = "create_category"
    /\ tasks[t].name = tasks[u].name /\ tasks[t].name # "Travel"
    /\ Answered(t) /\ Answered(u)
    /\ \A v \in DOMAIN tasks \ {t, u} :
           tasks[v].op \in {"create_category", "update_category"} => tasks[v].name # tasks[t].name

\* C18: of two concurrent POST /categories with the same name, not stored
\* beforehand, exactly one ends with 201 and the other with the 400 'already
\* exists' conflict, whatever the interleaving.
C18_OneCreatedOtherConflict ==
    \A t, u \in DOMAIN tasks :
        C18_TwoCreates(t, u)
        => \/ /\ tasks[t].status = 201
              /\ tasks[u].status = 400 /\ tasks[u].tmpl = "category_exists"
           \/ /\ tasks[u].status = 201
              /\ tasks[t].status = 400 /\ tasks[t].tmpl = "category_exists"

\* what the code does: exactly one ends with 201, the other with 500
C18_OneCreatedOther500 ==
    \A t, u \in DOMAIN tasks :
        C18_TwoCreates(t, u)
        => \/ /\ tasks[t].status = 201
              /\ tasks[u].status = 500 /\ tasks[u].tmpl = "unexpected_error_create"
           \/ /\ tasks[u].status = 201
              /\ tasks[t].status = 500 /\ tasks[t].tmpl = "unexpected_error_create"

\* no session is used by two requests
C20_OwnSession ==
    \A t, u \in DOMAIN tasks : t # u => tasks[t].session # tasks[u].session

\* a request's session is open while the request is served and closed once
\* the request has ended, and no other session is open
C20_OpenWhileServed ==
    /\ \A t \in DOMAIN tasks : tasks[t].session \in sessions <=> tasks[t].pc # "closed"
    /\ \A s \in sessions : \E t \in DOMAIN tasks : tasks[t].session = s

\* C20: every request that obtains a session from get_db releases it on
\* every exit path: whether the route function returns, raises an HTTP error
\* after a validation or not-found failure, or raises an unexpected
\* exception, the session is eventually closed and none stays open after the
\* request ends; no session is used by two requests.
C20_SessionReleased ==
    /\ [](C20_OwnSession /\ C20_OpenWhileServed)
    /\ \A s \in 1..MaxRequests : (s \in sessions) ~> (s \notin sessions)
    /\ \A t \in 1..MaxRequests :
           (t \in DOMAIN tasks) ~> (t \in DOMAIN tasks /\ tasks[t].pc = "closed")

\* a request that returned and one that raised have both ended, every session closed
C20_Witness ==
    /\ sessions = {}
    /\ \E t, u \in DOMAIN tasks :
           /\ tasks[t].pc = "closed" /\ tasks[t].status = 201
           /\ tasks[u].pc = "closed" /\ tasks[u].status \in {400, 404, 500}

(***************************************************************************)
(* Commits that fail.  A session holds the writes its request has made and *)
(* not committed: its own queries see them, the queries of other sessions  *)
(* do not, and they are gone when the session is closed.  Requests are     *)
(* tasks as above, one step per awaited database call; a commit fails when *)
(* the database refuses it or cannot be reached.                           *)
(***************************************************************************)
\* a request that writes; committed is "none" until its commit was tried,
\* pending the write its session holds uncommitted
Transaction(op, i, name, is_active) ==
    [op |-> op, id |-> i, name |-> name, is_active |-> is_active, session |-> 0,
     pc |-> "opened", existing |-> FALSE, status |-> 0, tmpl |-> "",
     committed |-> "none", pending |-> None]

\* a write to one row: the row's new value, None for a delete
Pending(table, i, row) == Some([table |-> table, id |-> i, row |-> row])

\* the mutating requests, sent while category 1 and expense 1 are stored
CommitRequests ==
    {Transaction("create_category", 0, "Food", TRUE),
     Transaction("update_category", 1, "Food", FALSE),
     Transaction("mark_category_as_inactive", 1, "", FALSE),
     Transaction("create_expense", 0, "", FALSE),
     Transaction("update_expense", 1, "", FALSE),
     Transaction("delete_expense", 1, "", FALSE)}

\* the authenticated user and the body of the POST /expenses sent
CommitUser == "alice"

CommitPayload == CHOOSE e \in CreatePayloads : e.category_id = 1

RECURSIVE Overlay(_, _, _, _)
\* the rows of a table as a session's queries see them: the committed rows
\* with the uncommitted writes made through that session, those of the first
\* n tasks
Overlay(table, rows, session, n) ==
    IF n = 0 THEN rows
    ELSE LET below == Overlay(table, rows, session, n - 1)
             u == tasks[n]
         IN  IF /\ u.session = session /\ session \in sessions
                /\ u.pending # None /\ u.pending[1].table = table
             THEN IF u.pending[1].row = None
                  THEN Remove(below, u.pending[1].id)
                  ELSE Put(below, u.pending[1].id, u.pending[1].row[1])
             ELSE below

session_categories(t) == Overlay("category", categories, tasks[t].session, Len(tasks))

session_expenses(t) == Overlay("expenses", expenses, tasks[t].session, Len(tasks))

UnexpectedTemplate(op) ==
    CASE op = "create_category" -> "unexpected_error_create"
      [] op = "update_category" -> "unexpected_error_update"
      [] op = "mark_category_as_inactive" -> "unexpected_error_delete"
      [] op = "create_expense" -> "expense_unexpected_error_create"
      [] op = "update_expense" -> "expense_unexpected_error_update"
      [] op = "delete_expense" -> "expense_unexpected_error_delete"

\* the response, the outcome of the commit and what the session still holds
Committed(t, response, outcome, pending) ==
    [Responded(t, tasks[t].existing, response) EXCEPT ![t].committed = outcome,
                                                      ![t].pending = pending]

\* a category route to the return of its select: get_category_by_name in
\* create_category_endpoint, the select of update_category and of
\* mark_category_as_inactive
category_select(t) ==
    LET task == tasks[t]
        cats == session_categories(t)
        existing_category == get_category_by_name(cats, task.name)
        out == get_category_by_id(cats, task.id)
    IN  /\ task.op \in {"create_category", "update_category", "mark_category_as_inactive"}
        /\ task.pc = "opened"
        /\ tasks' = IF task.op = "create_category"
                     THEN IF existing_category # None
                          THEN Responded(t, TRUE, create_category_handlers(
                                             RaiseHTTP(400, "category_exists", 0, task.name), task.name))
                          ELSE [tasks EXCEPT ![t].pc = "queried", ![t].existing = FALSE]
                     ELSE IF out.exc # "None"
                          THEN Responded(t, FALSE, id_handlers(out, 200, NotFoundTemplate(task.op),
                                                               UnexpectedTemplate(task.op), task.id))
                          ELSE [tasks EXCEPT ![t].pc = "queried", ![t].existing = TRUE]
        /\ UNCHANGED <<categories, expenses, files, nextCategory, nextExpense, nextFile, now,
                       req, resp, sessions>>

\* a category route from there to its response: the manager function assigns
\* and commits; none of the three rolls back when the commit raises, so the
\* session keeps the write
category_commit(t, commitOk) ==
    LET task == tasks[t]
        r == CASE task.op = "create_category" ->
                      create_category(categories, nextCategory, task.name, task.is_active, commitOk)
               [] task.op = "update_category" ->
                      update_category(categories, task.id, task.name, task.is_active, commitOk)
               [] task.op = "mark_category_as_inactive" ->
                      mark_category_as_inactive(categories, task.id, commitOk)
        written == CASE task.op = "create_category" ->
                            Pending("category", nextCategory,
                                    Some([name |-> task.name, is_active |-> task.is_active]))
                     [] task.op = "update_category" ->
                            Pending("category", task.id,
                                    Some([name |-> task.name, is_active |-> task.is_active]))
                     [] task.op = "mark_category_as_inactive" ->
                            Pending("category", task.id,
                                    Some([categories[task.id] EXCEPT !.is_active = FALSE]))
        out == IF task.op = "mark_category_as_inactive" /\ r.out.exc = "None"
               THEN Return([message |-> "Category inactived successfully", result |-> r.out.val[1]])
               ELSE r.out
        response == IF task.op = "create_category"
                    THEN create_category_handlers(out, task.name)
                    ELSE id_handlers(out, 200, NotFoundTemplate(task.op), UnexpectedTemplate(task.op),
                                     task.id)
    IN  /\ task.op \in {"create_category", "update_category", "mark_category_as_inactive"}
        /\ task.pc = "queried"
        /\ task.op = "create_category" => nextCategory <= MaxCategories
        /\ categories' = r.cats
        /\ nextCategory' = IF task.op = "create_category" /\ r.out.exc = "None"
                           THEN nextCategory + 1 ELSE nextCategory
        /\ tasks' = IF r.out.exc = "None"
                     THEN Committed(t, response, "ok", None)
                     ELSE Committed(t, response, "failed", written)
        /\ UNCHANGED <<expenses, files, nextExpense, nextFile, now, req, resp, sessions>>

\* create_expense_endpoint with a valid form field and no file: create_expense
\* awaits nothing before its commit, and rolls back when the commit raises
create_expense_commit(t, commitOk) ==
    LET task == tasks[t]
        r == create_expense(expenses, categories, nextExpense, CommitUser, CommitPayload, None,
                            nextFile, "ok", now + 1, commitOk)
    IN  /\ task.op = "create_expense" /\ task.pc = "opened"
        /\ r.out.exc = "None" => nextExpense <= MaxExpenses
        /\ r.clockRead => now < MaxTime
        /\ expenses' = r.exps
        /\ nextExpense' = IF r.out.exc = "None" THEN nextExpense + 1 ELSE nextExpense
        /\ now' = IF r.clockRead THEN now + 1 ELSE now
        /\ tasks' = Committed(t, create_expense_handlers(r.out, Some(CommitPayload.subject)),
                              IF r.out.exc = "None" THEN "ok" ELSE "failed", None)
        /\ UNCHANGED <<categories, files, nextCategory, nextFile, req, resp, sessions>>

\* update_expense_endpoint: the call of update_expense raises before anything
\* is awaited, so nothing is written and no commit is tried
update_expense_refuse(t) ==
    LET task == tasks[t]
        out == IF update_expense_args # update_expense_params
               THEN Raise("TypeError")
               ELSE update_expense(expenses, task.id, NoUpdate, now + 1, TRUE).out
    IN  /\ task.op = "update_expense" /\ task.pc = "opened"
        /\ out.exc # "None"
        /\ tasks' = Responded(t, FALSE, id_handlers(out, 200, "expense_update_not_found",
                                                    UnexpectedTemplate(task.op), task.id))
        /\ UNCHANGED <<categories, expenses, files, nextCategory, nextExpense, nextFile, now,
                       req, resp, sessions>>

\* delete_expense_endpoint to the return of delete_expense's select
delete_expense_select(t) ==
    LET task == tasks[t]
        out == get_expense_by_id(session_expenses(t), task.id)
    IN  /\ task.op = "delete_expense" /\ task.pc = "opened"
        /\ tasks' = IF out.exc # "None"
                     THEN Responded(t, FALSE, id_handlers(out, 200, "expense_deletion_not_found",
                                                          UnexpectedTemplate(task.op), task.id))
                     ELSE [tasks EXCEPT ![t].pc = "queried", ![t].existing = TRUE]
        /\ UNCHANGED <<categories, expenses, files, nextCategory, nextExpense, nextFile, now,
                       req, resp, sessions>>

\* delete_expense_endpoint from there to its response: db.delete and the
\* commit, which also fails when the selected row is gone (deleted by another
\* request in the meantime); delete_expense does not roll back
delete_expense_commit(t, commitOk) ==
    LET task == tasks[t]
        r == IF task.id \in DOMAIN expenses
             THEN delete_expense(expenses, task.id, commitOk)
             ELSE [out |-> Raise("RuntimeError"), exps |-> expenses]
        out == IF r.out.exc = "None"
               THEN Return([message |-> "Expense deleted successfully", result |-> r.out.val[1]])
               ELSE r.out
        response == id_handlers(out, 200, "expense_deletion_not_found", UnexpectedTemplate(task.op),
                                task.id)
    IN  /\ task.op = "delete_expense" /\ task.pc = "queried"
        /\ expenses' = r.exps
        /\ tasks' = IF r.out.exc = "None"
                     THEN Committed(t, response, "ok", None)
                     ELSE Committed(t, response, "failed", Pending("expenses", task.id, None))
        /\ UNCHANGED <<categories, files, nextCategory, nextExpense, nextFile, now, req, resp,
                       sessions>>

NextCommit ==
    \/ \E request \in CommitRequests : get_db_enter(request)
    \/ \E t \in DOMAIN tasks : category_select(t)
    \/ \E t \in DOMAIN tasks, ok \in BOOLEAN : category_commit(t, ok)
    \/ \E t \in DOMAIN tasks, ok \in BOOLEAN : create_expense_commit(t, ok)
    \/ \E t \in DOMAIN tasks : update_expense_refuse(t)
    \/ \E t \in DOMAIN tasks : delete_expense_select(t)
    \/ \E t \in DOMAIN tasks, ok \in BOOLEAN : delete_expense_commit(t, ok)
    \/ \E t \in DOMAIN tasks : session_close(t)

\* one category and one expense of it are stored when the requests arrive
InitCommit ==
    /\ categories = Put(EmptyTable, 1, [name |-> "Travel", is_active |-> TRUE])
    /\ expenses = create_expense(EmptyTable, categories, 1, CommitUser, CommitPayload, None,
                                 1, "ok", 1, TRUE).exps
    /\ files = {}
    /\ nextCategory = 2
    /\ nextExpense = 2
    /\ nextFile = 1
    /\ now = 1
    /\ req = [NoReq EXCEPT !.op = "create_expense", !.user = CommitUser,
                           !.body = JsonText("object", Some(Members(CommitPayload))),
                           !.payload = Some(CommitPayload)]
    /\ resp = Response(201, "", 0, "", Some(ExpenseEntity(expenses, 1)))
    /\ tasks = <<>>
    /\ sessions = {}

SpecCommit == InitCommit /\ [][NextCommit]_vars

(***************************************************************************)
(* Properties of commits that fail, checked under SpecCommit.              *)
(***************************************************************************)
\* the manager functions, called on stored rows when the commit fails
C21_ManagersRaiseUnexpected ==
    /\ \A n \in Names, a \in BOOLEAN :
           /\ create_category(categories, nextCategory, n, a, FALSE)
                  = [out |-> Raise("RuntimeError"), cats |-> categories]
           /\ \A i \in DOMAIN categories :
                  update_category(categories, i, n, a, FALSE)
                      = [out |-> Raise("RuntimeError"), cats |-> categories]
    /\ \A i \in DOMAIN categories :
           mark_category_as_inactive(categories, i, FALSE)
               = [out |-> Raise("RuntimeError"), cats |-> categories]
    /\ LET r == create_expense(expenses, categories, nextExpense, CommitUser, CommitPayload, None,
                               nextFile, "ok", now + 1, FALSE)
       IN  r.out = Raise("RuntimeError") /\ r.exps = expenses
    /\ \A i \in DOMAIN expenses :
           /\ delete_expense(expenses, i, FALSE) = [out |-> Raise("RuntimeError"), exps |-> expenses]
           /\ \A p \in UpdatePayloads :
                  LET r == update_expense(expenses, i, p, now + 1, FALSE)
                  IN  r.out = Raise("RuntimeError") /\ r.exps = expenses

\* the step in which a request's commit fails: the request is answered with
\* its route's unexpected-error message and no row is written
C21_FailedCommitStep ==
    \A t \in DOMAIN tasks :
        (tasks[t].committed = "none" /\ tasks'[t].committed = "failed")
        => /\ tasks'[t].status = 500
           /\ tasks'[t].tmpl = UnexpectedTemplate(tasks[t].op)
           /\ categories' = categories
           /\ expenses' = expenses
           /\ files' = files

\* the step in which a request's select returns: what it finds is what is
\* committed, whatever other requests hold uncommitted
C21_SelectSeesCommitted ==
    \A t \in DOMAIN tasks :
        (tasks[t].pc = "opened" /\ tasks'[t].pc # "opened" /\ tasks'[t].committed = "none")
        => CASE tasks[t].op = "create_category" ->
                    tasks'[t].existing = (get_category_by_name(categories, tasks[t].name) # None)
             [] tasks[t].op \in {"update_category", "mark_category_as_inactive"} ->
                    tasks'[t].existing = (tasks[t].id \in DOMAIN categories)
             [] tasks[t].op = "delete_expense" ->
                    tasks'[t].existing = (tasks[t].id \in DOMAIN expenses)
             [] OTHER -> TRUE

\* rows are written by the step of a commit that succeeds and by no other,
\* and a commit is tried once
C21_OnlyCommitsWrite ==
    /\ (categories' # categories \/ expenses' # expenses)
           => \E t \in DOMAIN tasks : tasks[t].committed = "none" /\ tasks'[t].committed = "ok"
    /\ \A t \in DOMAIN tasks :
           tasks[t].committed # "none" => tasks'[t].committed = tasks[t].committed

\* C21: when the commit of a mutating operation (category create, update,
\* mark-inactive; expense create, update, delete) fails, the operation surfaces
\* an unexpected error (not NotFound, not Conflict), the persisted rows are the
\* same as before the operation, and no later request observes the writes
\* that were pending in the failed request.
C21_FailedCommitLeavesNoTrace ==
    /\ []C21_ManagersRaiseUnexpected
    /\ [][C21_FailedCommitStep /\ C21_SelectSeesCommitted /\ C21_OnlyCommitsWrite]_vars

\* the commit of a POST /categories failed, its session held the row, and
\* the same POST sent afterwards found no such row and created it
C21_Witness ==
    /\ Len(tasks) = 2
    /\ tasks[1].op = "create_category" /\ tasks[1].committed = "failed" /\ tasks[1].pending # None
    /\ tasks[2].op = "create_category" /\ tasks[2].status = 201
    /\ Cardinality(DOMAIN categories) = 2

====
